---- MODULE Spec2Model ----
(***************************************************************************)
(* A model of the valuation core of fintoolsom: calendars and business-day *)
(* arithmetic, rates and rate conventions, the zero-coupon curve with its  *)
(* discount-factor cache, and coupons / bonds.                             *)
(*                                                                         *)
(* Numbers.  Dates are day ordinals (0 is 2024-01-01, a Monday).  A rate   *)
(* value held by a curve point is a binary floating-point number with      *)
(* MantissaBits significant bits, written as an integer count of units of  *)
(* 1/FloatScale; additions round to nearest, ties to even, as IEEE 754     *)
(* does.  Wealth and discount factors are kept exactly, by their natural   *)
(* logarithm written as a rational combination of 1 and of ln p for primes *)
(* p ("log vector"): products, powers, exp and log of the conventions are  *)
(* exact there, so equality of two factors is equality of real numbers.    *)
(***************************************************************************)
EXTENDS Integers, Sequences, FiniteSets, TLC

VARIABLES
    curve,      \* the ZeroCouponCurve object (record of its attributes)
    calendar,   \* the Calendar object
    rate,       \* the Rate object
    bond,       \* the Coupons / Bond under construction
    last,       \* the last completed call: name, arguments, outcome
    zs,         \* the frame of the solver call in progress, if any
                \* (get_z_spread, get_irr_from_amount)
    memo        \* _day_count_cache, the dictionary of the module
                \* dates/date_counts.py (followed in SpecDayCount)

vars == <<curve, calendar, rate, bond, last, zs, memo>>

\* the value of a variable whose object the specification at hand does not use
NoObject == [none |-> TRUE]

(***************************************************************************)
(* Integers and rationals                                                  *)
(***************************************************************************)
Min(a, b) == IF a < b THEN a ELSE b
Max(a, b) == IF a > b THEN a ELSE b
Abs(x) == IF x < 0 THEN -x ELSE x

RECURSIVE GCD(_, _)
GCD(a, b) == IF b = 0 THEN a ELSE GCD(b, a % b)

\* a rational is <<numerator, denominator>> in lowest terms, denominator > 0
RNorm(n, d) ==
    LET s == IF d < 0 THEN -1 ELSE 1
        g == GCD(Abs(n), Abs(d))
    IN  <<(s * n) \div g, (s * d) \div g>>

RInt(n)    == <<n, 1>>
RAdd(p, q) == RNorm(p[1] * q[2] + q[1] * p[2], p[2] * q[2])
RNeg(p)    == <<-p[1], p[2]>>
RSub(p, q) == RAdd(p, RNeg(q))
RMul(p, q) == RNorm(p[1] * q[1], p[2] * q[2])
RDiv(p, q) == RNorm(p[1] * q[2], p[2] * q[1])
RLt(p, q)  == p[1] * q[2] < q[1] * p[2]
RLe(p, q)  == p[1] * q[2] <= q[1] * p[2]
RZero      == <<0, 1>>
ROne       == <<1, 1>>

(***************************************************************************)
(* Log vectors: a function from a finite set of keys to non-zero rationals.*)
(* Key 1 carries the rational part, a prime key p the coefficient of ln p. *)
(* 1, ln 2, ln 3, ... are linearly independent over the rationals, so two  *)
(* log vectors are equal exactly when the real numbers are.                *)
(***************************************************************************)
LVZero == [k \in {} |-> RZero]

LVGet(u, k) == IF k \in DOMAIN u THEN u[k] ELSE RZero

LVAdd(u, v) ==
    LET D == DOMAIN u \cup DOMAIN v
        S == {k \in D : RAdd(LVGet(u, k), LVGet(v, k))[1] # 0}
    IN  [k \in S |-> RAdd(LVGet(u, k), LVGet(v, k))]

LVScale(u, q) ==
    IF q[1] = 0 THEN LVZero ELSE [k \in DOMAIN u |-> RMul(u[k], q)]

LVSub(u, v) == LVAdd(u, LVScale(v, <<-1, 1>>))

LVRat(q) == IF q[1] = 0 THEN LVZero ELSE [k \in {1} |-> q]

\* the prime factors of m >= 1, with multiplicity, smallest first
RECURSIVE ISqrt(_, _, _)
ISqrt(m, lo, hi) ==
    IF lo >= hi THEN lo
    ELSE LET mid == (lo + hi + 1) \div 2
         IN  IF mid * mid <= m THEN ISqrt(m, mid, hi) ELSE ISqrt(m, lo, mid - 1)

RECURSIVE Factorize(_, _)
Factorize(m, p) ==
    IF m = 1 THEN <<>>
    ELSE LET D == {q \in p..ISqrt(m, 1, Min(m, 46340)) : m % q = 0}
         IN  IF D = {} THEN <<m>>
             ELSE LET q == CHOOSE x \in D : \A y \in D : x <= y
                  IN  <<q>> \o Factorize(m \div q, q)

LnInt(m) ==
    LET f == Factorize(m, 2)
        P == {f[i] : i \in DOMAIN f}
    IN  [p \in P |-> RInt(Cardinality({i \in DOMAIN f : f[i] = p}))]

\* ln q for a rational q > 0
LnRat(q) == LVSub(LnInt(q[1]), LnInt(q[2]))

\* a log vector is the logarithm of a rational number exactly when it has no
\* rational part and whole coefficients
LVIsLnOfRat(u) == \A k \in DOMAIN u : k # 1 /\ u[k][2] = 1

\* A rate value is written out as a rational number <<n, d>> only when n and
\* d have at most MaxRationalBits bits; a rational too long for that stays in
\* the form that names it by its logarithm.
MaxRationalBits == 16

RECURSIVE IntPow(_, _)
IntPow(b, e) == IF e = 0 THEN 1 ELSE b * IntPow(b, e - 1)

RationalCap == IntPow(2, MaxRationalBits)

\* a * b for a, b >= 1, or RationalCap + 1 when that is exceeded
MulCapped(a, b) == IF a > RationalCap \div b THEN RationalCap + 1 ELSE a * b

\* b^e, or RationalCap + 1 when that is exceeded
RECURSIVE PowCapped(_, _)
PowCapped(b, e) ==
    IF e = 0 THEN 1
    ELSE IF e > MaxRationalBits THEN RationalCap + 1
    ELSE MulCapped(b, PowCapped(b, e - 1))

\* the product of k^|c| over the keys k of K whose coefficient c has sign sg
RECURSIVE PartCapped(_, _, _)
PartCapped(u, K, sg) ==
    IF K = {} THEN 1
    ELSE LET k == CHOOSE x \in K : TRUE
         IN  IF sg * u[k][1] > 0
             THEN MulCapped(PowCapped(k, Abs(u[k][1])), PartCapped(u, K \ {k}, sg))
             ELSE PartCapped(u, K \ {k}, sg)

LVIsShortRat(u) ==
    /\ LVIsLnOfRat(u)
    /\ PartCapped(u, DOMAIN u, 1) <= RationalCap
    /\ PartCapped(u, DOMAIN u, -1) <= RationalCap

RECURSIVE ExpLnNum(_, _)
ExpLnNum(u, K) ==
    IF K = {} THEN <<1, 1>>
    ELSE LET k == CHOOSE x \in K : TRUE
             r == ExpLnNum(u, K \ {k})
             e == u[k][1]
         IN  IF e >= 0 THEN <<r[1] * IntPow(k, e), r[2]>>
             ELSE <<r[1], r[2] * IntPow(k, -e)>>

\* exp u for a log vector u with LVIsShortRat(u)
ExpRat(u) == LET r == ExpLnNum(u, DOMAIN u) IN RNorm(r[1], r[2])

(***************************************************************************)
(* Dates: day ordinals, 0 = 2024-01-01 (a Monday, weekday 0 as in Python). *)
(***************************************************************************)
IsLeap(y) == (y % 4 = 0 /\ y % 100 # 0) \/ y % 400 = 0

DaysInYear(y) == IF IsLeap(y) THEN 366 ELSE 365

\* calendar.monthrange(y, m)[1]
DaysInMonth(y, m) ==
    IF m = 2 THEN (IF IsLeap(y) THEN 29 ELSE 28)
    ELSE IF m \in {4, 6, 9, 11} THEN 30 ELSE 31

RECURSIVE YearStart(_)
YearStart(y) ==
    IF y = 2024 THEN 0
    ELSE IF y > 2024 THEN YearStart(y - 1) + DaysInYear(y - 1)
    ELSE YearStart(y + 1) - DaysInYear(y)

RECURSIVE MonthStart(_, _)
MonthStart(y, m) ==
    IF m = 1 THEN YearStart(y) ELSE MonthStart(y, m - 1) + DaysInMonth(y, m - 1)

\* datetime.date(y, m, d) as an ordinal
MkDate(y, m, d) == MonthStart(y, m) + d - 1

RECURSIVE YearFrom(_, _)
YearFrom(n, y) ==
    IF n < YearStart(y) THEN YearFrom(n, y - 1)
    ELSE IF n >= YearStart(y + 1) THEN YearFrom(n, y + 1)
    ELSE y

YearOf(n) == YearFrom(n, 2024)

RECURSIVE MonthFrom(_, _, _)
MonthFrom(n, y, m) ==
    IF m < 12 /\ n >= MonthStart(y, m + 1) THEN MonthFrom(n, y, m + 1) ELSE m

MonthOf(n) == MonthFrom(n, YearOf(n), 1)

DayOf(n) == n - MonthStart(YearOf(n), MonthOf(n)) + 1

\* date.weekday(): Monday is 0, Sunday is 6
Weekday(n) == n % 7


(***************************************************************************)
(* Day counts (dates/date_counts.py), scalar forms.  A date enters a 30/360 *)
(* count through its year, month and day: DateParts.                       *)
(***************************************************************************)
DateParts(n) == [year |-> YearOf(n), month |-> MonthOf(n), day |-> DayOf(n)]

\* 360 * (y2 - y1) + 30 * (m2 - m1) + (d2 - d1)
DayCount360(a, b, d1, d2) ==
    360 * (b.year - a.year) + 30 * (b.month - a.month) + (d2 - d1)

IsMonthEnd(a) == a.day = DaysInMonth(a.year, a.month)

_get_day_count_actual(s, e) == e - s

_get_day_count_30a(a, b) ==
    LET d1 == Min(a.day, 30)
        d2 == IF d1 > 29 THEN Min(b.day, 30) ELSE b.day
    IN  DayCount360(a, b, d1, d2)

_get_day_count_30u(a, b) ==
    LET s_feb == a.month = 2 /\ IsMonthEnd(a)
        e_feb == b.month = 2 /\ IsMonthEnd(b)
        d2a == IF IsMonthEnd(b) /\ s_feb /\ e_feb THEN 30 ELSE b.day
        d1a == IF IsMonthEnd(b) /\ s_feb THEN 30 ELSE a.day
        d2b == IF d2a = 31 /\ d1a = 30 THEN 30 ELSE d2a
        d1b == IF d1a = 31 THEN 30 ELSE d1a
    IN  DayCount360(a, b, d1b, d2b)

_get_day_count_30e(a, b) ==
    LET d1 == Min(a.day, 30)
        d2 == Min(d1, 30)
    IN  DayCount360(a, b, d1, d2)

_get_day_count_30e_isda(a, b) ==
    LET d1 == IF IsMonthEnd(a) THEN 30 ELSE a.day
        d2 == IF IsMonthEnd(b) /\ b.month # 2 THEN 30 ELSE b.day
    IN  DayCount360(a, b, d1, d2)

\* the tags of DayCountConvention and the tags _day_count_router has an entry for
DayCountConvention == {"Actual", "Days30A", "Days30U", "Days30E", "Days30E_ISDA", "BUS_DAYS"}
RoutedDayCounts    == {"Actual", "Days30A", "Days30E", "Days30U", "Days30E_ISDA"}

\* _day_count_router[dcc](start, end) for a routed tag
_day_count_router(s, e, a, b, dcc) ==
    CASE dcc = "Actual"       -> _get_day_count_actual(s, e)
      [] dcc = "Days30A"      -> _get_day_count_30a(a, b)
      [] dcc = "Days30E"      -> _get_day_count_30e(a, b)
      [] dcc = "Days30U"      -> _get_day_count_30u(a, b)
      [] dcc = "Days30E_ISDA" -> _get_day_count_30e_isda(a, b)

\* get_day_count for a routed tag (an unrouted tag raises KeyError)
get_day_count(s, e, dcc) == _day_count_router(s, e, DateParts(s), DateParts(e), dcc)

\* get_time_fraction: day_count / base, as a rational
get_time_fraction(s, e, dcc, base) == RNorm(get_day_count(s, e, dcc), base)

(***************************************************************************)
(* Rates (rates/Rates.py)                                                  *)
(*                                                                         *)
(* A rate value is one of                                                  *)
(*   [k |-> "lv",  v |-> u]          the real number u[1] + SUM u[p] ln p  *)
(*   [k |-> "em1", l |-> u, t |-> q] (exp(u) - 1) / q with exp(u) not a    *)
(*                                   short rational                        *)
(*   [k |-> "nan"]                   a float that is nan or infinite       *)
(*   [k |-> "opq"]                   a real number outside these forms     *)
(* and a wealth factor is [k |-> "pos", l |-> u] for exp(u), or "nonpos",  *)
(* "nan", "opq".  np tells a numpy float64 from a Python float: dividing   *)
(* a Python float by zero raises, dividing a float64 by zero does not.     *)
(***************************************************************************)
InterestConvention == {"Linear", "Compounded", "Exponential"}

RateConvention(ic, dcc, base) ==
    [interest_convention |-> ic, day_count_convention |-> dcc, time_fraction_base |-> base]

NumRat(q)    == [k |-> "lv", v |-> LVRat(q)]
NumNan       == [k |-> "nan"]
NumOpq       == [k |-> "opq"]
NumIsRat(x)  == x.k = "lv" /\ DOMAIN x.v \subseteq {1}
NumRatOf(x)  == LVGet(x.v, 1)

WfPos(u, np) == [k |-> "pos", l |-> u, np |-> np]
WfOther(k, np) == [k |-> k, np |-> np]

\* Rate._get_time_fraction
Rate_get_time_fraction(conv, s, e) ==
    get_time_fraction(s, e, conv.day_count_convention, conv.time_fraction_base)

\* Rate._get_wf_from_linear_rate: 1 + rate_value * time_fraction, at time
\* fraction t
_get_wf_from_linear_rate(x, np, t) ==
    CASE x.k = "nan" -> WfOther("nan", np)
      [] t[1] = 0 -> WfPos(LVZero, np)
      [] NumIsRat(x) ->
            LET w == RAdd(ROne, RMul(NumRatOf(x), t))
            IN  IF w[1] > 0 THEN WfPos(LnRat(w), np) ELSE WfOther("nonpos", np)
      [] x.k = "em1" /\ x.t = t -> WfPos(x.l, np)
      [] OTHER -> WfOther("opq", np)

\* Rate._get_wf_from_compounded_rate: (1 + rate_value) ** time_fraction
_get_wf_from_compounded_rate(x, np, t) ==
    CASE x.k = "nan" -> WfOther("nan", np)
      [] t[1] = 0 -> WfPos(LVZero, np)
      [] NumIsRat(x) ->
            LET b == RAdd(ROne, NumRatOf(x))
            IN  IF b[1] > 0 THEN WfPos(LVScale(LnRat(b), t), np)
                ELSE WfOther("nonpos", np)
      [] x.k = "em1" /\ x.t = ROne -> WfPos(LVScale(x.l, t), np)
      [] OTHER -> WfOther("opq", np)

\* Rate._get_wf_from_exponential_rate: np.exp(rate_value * time_fraction)
_get_wf_from_exponential_rate(x, np, t) ==
    CASE x.k = "nan" -> WfOther("nan", TRUE)
      [] t[1] = 0 -> WfPos(LVZero, TRUE)
      [] x.k = "lv" -> WfPos(LVScale(x.v, t), TRUE)
      [] OTHER -> WfOther("opq", TRUE)

\* Rate._wf_router[interest_convention] applied at time fraction t
_wf_router(r, t) ==
    CASE r.rate_convention.interest_convention = "Linear" ->
            _get_wf_from_linear_rate(r.rate_value, r.np, t)
      [] r.rate_convention.interest_convention = "Compounded" ->
            _get_wf_from_compounded_rate(r.rate_value, r.np, t)
      [] r.rate_convention.interest_convention = "Exponential" ->
            _get_wf_from_exponential_rate(r.rate_value, r.np, t)

\* Rate.get_wealth_factor of the rate [rate_convention, rate_value, np]
get_wealth_factor(r, s, e) ==
    _wf_router(r, Rate_get_time_fraction(r.rate_convention, s, e))

\* 1 / wf
Reciprocal(wf) ==
    IF wf.k = "pos" THEN WfPos(LVScale(wf.l, <<-1, 1>>), wf.np) ELSE wf

\* Rate.get_discount_factor: 1 / wf
get_discount_factor(r, s, e) == Reciprocal(get_wealth_factor(r, s, e))

\* The static inverses.  Each returns [err, rate_value, np]; err is "" on a
\* normal return.
RvOk(x, np)  == [err |-> "", rate_value |-> x, np |-> np]
RvErr(e)     == [err |-> e, rate_value |-> NumNan, np |-> FALSE]

\* (wf - 1) / time_fraction, at time fraction t
_get_linear_rate_values_from_wf(wf, t) ==
    CASE t[1] = 0 -> IF wf.np THEN RvOk(NumNan, TRUE) ELSE RvErr("ZeroDivisionError")
      [] wf.k = "pos" ->
            IF LVIsShortRat(wf.l)
            THEN RvOk(NumRat(RDiv(RSub(ExpRat(wf.l), ROne), t)), wf.np)
            ELSE RvOk([k |-> "em1", l |-> wf.l, t |-> t], wf.np)
      [] wf.k = "nan" -> RvOk(NumNan, wf.np)
      [] OTHER -> RvOk(NumOpq, wf.np)

\* the rate 1 + value = exp(u)
CompoundedValue(u) ==
    IF LVIsShortRat(u) THEN NumRat(RSub(ExpRat(u), ROne))
    ELSE [k |-> "em1", l |-> u, t |-> ROne]

\* the inverse with the exponent time_fraction in place of 1 / time_fraction
CompoundedValuesWithExponentT(wf, t) ==
    CASE t[1] = 0 -> RvErr("ZeroDivisionError")
      [] wf.k = "pos" -> RvOk(CompoundedValue(LVScale(wf.l, t)), TRUE)
      [] wf.k = "nan" -> RvOk(NumNan, TRUE)
      [] OTHER -> RvOk(NumOpq, TRUE)

\* np.power(wf, 1 / time_fraction) - 1
_get_compounded_rate_values_from_wf(wf, t) ==
    CASE t[1] = 0 -> RvErr("ZeroDivisionError")
      [] wf.k = "pos" -> RvOk(CompoundedValue(LVScale(wf.l, RDiv(ROne, t))), TRUE)
      [] wf.k = "nan" -> RvOk(NumNan, TRUE)
      [] OTHER -> RvOk(NumOpq, TRUE)

\* np.log(wf) / time_fraction
_get_exponential_rate_values_from_wf(wf, t) ==
    CASE t[1] = 0 -> RvOk(NumNan, TRUE)
      [] wf.k = "pos" -> RvOk([k |-> "lv", v |-> LVScale(wf.l, RDiv(ROne, t))], TRUE)
      [] wf.k = "nan" -> RvOk(NumNan, TRUE)
      [] OTHER -> RvOk(NumOpq, TRUE)

\* the inverse chosen by the interest convention, at time fraction t
_rate_values_from_wf(wf, t, conv) ==
    CASE conv.interest_convention = "Linear" -> _get_linear_rate_values_from_wf(wf, t)
      [] conv.interest_convention = "Compounded" -> _get_compounded_rate_values_from_wf(wf, t)
      [] conv.interest_convention = "Exponential" -> _get_exponential_rate_values_from_wf(wf, t)

\* Rate(rate_convention, value), or the error that prevented it
RateResult(rv, conv) ==
    [err |-> rv.err,
     rate |-> [rate_convention |-> conv, rate_value |-> rv.rate_value, np |-> rv.np]]

\* Rate.get_rate_from_wf: [err, rate]
get_rate_from_wf(wf, s, e, conv) ==
    IF conv.day_count_convention \notin RoutedDayCounts
    THEN RateResult(RvErr("KeyError"), conv)
    ELSE RateResult(_rate_values_from_wf(wf, Rate_get_time_fraction(conv, s, e), conv), conv)

\* Rate.get_rate_from_df: wf = 1 / df
get_rate_from_df(df, s, e, conv) == get_rate_from_wf(Reciprocal(df), s, e, conv)

(***************************************************************************)
(* Floating-point rate values of curve points                              *)
(***************************************************************************)
MantissaBits == 3       \* significant bits of a float
FracBits     == 6       \* one unit is 2^-FracBits

FloatScale == IntPow(2, FracBits)

RECURSIVE FloatUnit(_, _)
FloatUnit(a, u) == IF a < IntPow(2, MantissaBits) * u THEN u ELSE FloatUnit(a, 2 * u)

\* the float nearest to the integer x (in units), ties to the even mantissa
RoundFloat(x) ==
    LET a    == Abs(x)
        u    == FloatUnit(a, 1)
        q    == a \div u
        r    == a % u
        up   == 2 * r > u \/ (2 * r = u /\ q % 2 = 1)
        m    == IF up THEN q + 1 ELSE q
    IN  IF x < 0 THEN -(m * u) ELSE m * u

\* float addition ("rate_value += shift")
FloatAdd(x, y) == RoundFloat(x + y)

\* the real number a float stands for
FloatNum(n) == NumRat(RNorm(n, FloatScale))

(***************************************************************************)
(* Zero-coupon curve (rates/ZeroCouponCurve.py)                            *)
(*                                                                         *)
(* The interpolation models are taken as their call sites use them: built  *)
(* from (x_values, y_values), piecewise linear through the knots, linear   *)
(* beyond them when extrapolate is set.  Only the default discount-factor  *)
(* interpolation (LogLinear) is modelled.                                  *)
(***************************************************************************)
ZeroCouponCurvePoint(d, conv, code) ==
    [date |-> d, rate |-> [rate_convention |-> conv, rate_value |-> code]]

\* the Rate object of a curve point, for the Rate operators above; a point
\* built from a discount factor holds the Rate that get_rate_from_df made
PointRate(cp) ==
    IF "np" \in DOMAIN cp.rate THEN cp.rate
    ELSE [rate_convention |-> cp.rate.rate_convention,
          rate_value |-> FloatNum(cp.rate.rate_value), np |-> FALSE]

\* str() of the rate value of a point, as the cache key holds it
RateText(cp) ==
    IF "np" \in DOMAIN cp.rate THEN cp.rate.rate_value
    ELSE [k |-> "float", code |-> cp.rate.rate_value]

DfNan == [k |-> "nan", l |-> LVZero]
DfOf(w) == IF w.k = "pos" THEN [k |-> "pos", l |-> w.l] ELSE DfNan

\* sorted(points, key=date): stable
RECURSIVE SortedInsert(_, _)
SortedInsert(sq, cp) ==
    IF sq = <<>> THEN <<cp>>
    ELSE IF sq[Len(sq)].date <= cp.date THEN Append(sq, cp)
    ELSE Append(SortedInsert(SubSeq(sq, 1, Len(sq) - 1), cp), sq[Len(sq)])

RECURSIVE SortByDate(_)
SortByDate(sq) ==
    IF sq = <<>> THEN <<>>
    ELSE SortedInsert(SortByDate(SubSeq(sq, 1, Len(sq) - 1)), sq[Len(sq)])

\* ZeroCouponCurve._set_df_curve: the dfs array
_set_df_curve(curve_date, points) ==
    [i \in DOMAIN points |->
        IF points[i].date >= curve_date
        THEN DfOf(get_discount_factor(PointRate(points[i]), curve_date, points[i].date))
        ELSE [k |-> "pos", l |-> LVZero]]

\* ZeroCouponCurve.get_yfs (get_days / time_fraction_base) for a list of dates
get_yfs(curve_date, dts, conv) ==
    [i \in DOMAIN dts |->
        get_time_fraction(curve_date, dts[i], conv.day_count_convention,
                          conv.time_fraction_base)]

\* LogLinearInterpolation.__post_init__: knots (x, ln y)
LogLinearInterpolation(xs, ys, extrapolate) ==
    [x_values |-> xs,
     y_values |-> [i \in DOMAIN ys |-> ys[i]],
     extrapolate |-> extrapolate]

\* index (from 2) of the right knot of the segment used for x: the first knot
\* not below x, clipped to 2 .. n
FirstNotBelow(C, n) == IF C = {} THEN n ELSE CHOOSE c \in C : \A d \in C : c <= d

SegmentHi(xs, x) == Max(2, FirstNotBelow({j \in 1..Len(xs) : RLe(x, xs[j])}, Len(xs)))

\* LogLinearInterpolation.get_y_value: exp of the line through the segment's
\* knots.  A segment of zero width divides by zero and a single knot leaves the
\* extrapolating interpolant without a segment: the value is then no discount
\* factor (nan, inf or 0), written DfNan.
SegmentValue(xlo, xhi, ylo, yhi, x) ==
    IF ylo.k # "pos" \/ yhi.k # "pos" \/ xlo = xhi THEN DfNan
    ELSE [k |-> "pos",
          l |-> LVAdd(ylo.l, LVScale(LVSub(yhi.l, ylo.l),
                                     RDiv(RSub(x, xlo), RSub(xhi, xlo))))]

SegmentAt(ip, hi, x) ==
    SegmentValue(ip.x_values[hi - 1], ip.x_values[hi],
                 ip.y_values[hi - 1], ip.y_values[hi], x)

get_y_value(ip, x) ==
    IF Len(ip.x_values) = 0 THEN DfNan
    ELSE IF Len(ip.x_values) = 1 THEN (IF ip.extrapolate THEN DfNan ELSE ip.y_values[1])
    ELSE SegmentAt(ip, SegmentHi(ip.x_values, x), x)

\* the attributes _complete_curve derives from the sorted points
DerivedCurve(c, pts, dts, rvs, dfs) ==
    [c EXCEPT !.curve_points = pts,
              !.dates = dts,
              !.rates_values = rvs,
              !.dfs = dfs,
              !._str_dates_rates = <<dts, [i \in DOMAIN pts |-> RateText(pts[i])]>>,
              !._df_interpolator =
                  LogLinearInterpolation(get_yfs(c.curve_date, dts, c._rate_conv), dfs, TRUE)]

\* _complete_curve after the sort.  err = "ValueError" when there is no point:
\* the unpacking of zip(*[]) raises after curve_points has been assigned, and
\* nothing after it runs.
CompleteSorted(c, pts) ==
    IF pts = <<>>
    THEN [err |-> "ValueError", curve |-> [c EXCEPT !.curve_points = pts], ret |-> <<>>]
    ELSE [err |-> "",
          curve |-> DerivedCurve(c, pts,
                                 [i \in DOMAIN pts |-> pts[i].date],
                                 [i \in DOMAIN pts |-> pts[i].rate.rate_value],
                                 _set_df_curve(c.curve_date, pts)),
          ret |-> <<>>]

\* ZeroCouponCurve._complete_curve on the curve record c whose curve_points
\* have just been assigned
_complete_curve(c) == CompleteSorted(c, SortByDate(c.curve_points))

\* ZeroCouponCurve.__post_init__ with curve_points given (a non-empty list)
NewCurve(curve_date, points) ==
    LET c0 == [curve_date |-> curve_date,
               curve_points |-> points,
               dates |-> <<>>, rates_values |-> <<>>, dfs |-> <<>>,
               _str_dates_rates |-> <<<<>>, <<>>>>,
               _rate_conv |-> points[1].rate.rate_convention,
               _df_interpolator |-> LogLinearInterpolation(<<>>, <<>>, TRUE),
               _cashed_dfs |-> [k \in {} |-> <<>>]]
    IN  _complete_curve(c0).curve

\* list(filter(lambda cp: cp.date != date, points))
RECURSIVE FilterDate(_, _)
FilterDate(points, d) ==
    IF points = <<>> THEN <<>>
    ELSE IF points[1].date # d THEN <<points[1]>> \o FilterDate(Tail(points), d)
    ELSE FilterDate(Tail(points), d)

\* ZeroCouponCurve.delete_point
delete_point(c, d) ==
    _complete_curve([c EXCEPT !.curve_points = FilterDate(c.curve_points, d)])

\* ZeroCouponCurve.add_point
AppendPoint(del, cp) ==
    IF del.err # "" THEN del
    ELSE _complete_curve([del.curve EXCEPT
                             !.curve_points = Append(del.curve.curve_points, cp)])

add_point(c, cp) ==
    IF cp.date < c.curve_date THEN [err |-> "ValueError", curve |-> c, ret |-> <<>>]
    ELSE AppendPoint(delete_point(c, cp.date), cp)

\* ZeroCouponCurve.parallel_shift; q is the float shift_in_bps / 10_000
parallel_shift(c, q) ==
    LET cps == [i \in DOMAIN c.curve_points |->
                   [c.curve_points[i] EXCEPT
                       !.rate.rate_value = FloatAdd(c.curve_points[i].rate.rate_value, q)]]
    IN  _complete_curve([c EXCEPT !.curve_points = cps])

\* the extrapolating branch of get_dfs: the interpolant at every query date
DfsExtrapolated(c, dates_t) ==
    LET yfs == get_yfs(c.curve_date, dates_t, c._rate_conv)
    IN  [i \in DOMAIN dates_t |-> get_y_value(c._df_interpolator, yfs[i])]

SeqMin(sq) == CHOOSE m \in {sq[i] : i \in DOMAIN sq} : \A i \in DOMAIN sq : m <= sq[i]
SeqMax(sq) == CHOOSE m \in {sq[i] : i \in DOMAIN sq} : \A i \in DOMAIN sq : m >= sq[i]

\* tenors[mask]: the entries satisfying the mask, in order
RECURSIVE SelectInRange(_, _, _)
SelectInRange(sq, lo, hi) ==
    IF sq = <<>> THEN <<>>
    ELSE IF sq[1] >= lo /\ sq[1] <= hi THEN <<sq[1]>> \o SelectInRange(Tail(sq), lo, hi)
    ELSE SelectInRange(Tail(sq), lo, hi)

\* first_dfs + normal_dfs + last_dfs: the first `small` positions are
\* discounted with the first point's rate, the next Len(normal) positions hold
\* the interpolated values, the remaining ones are discounted with the last
\* point's rate
SumOfParts(c, dates_t, small, normal, needPts) ==
    IF needPts /\ c.curve_points = <<>> THEN [err |-> "IndexError", ret |-> <<>>]
    ELSE [err |-> "",
          ret |-> [ix \in DOMAIN dates_t |->
              IF ix <= small
              THEN DfOf(get_discount_factor(PointRate(c.curve_points[1]),
                                            c.curve_date, dates_t[ix]))
              ELSE IF ix <= small + Len(normal)
              THEN normal[ix - small]
              ELSE DfOf(get_discount_factor(PointRate(c.curve_points[Len(c.curve_points)]),
                                            c.curve_date, dates_t[ix]))]]

\* the non-extrapolating branch of get_dfs once tenors, min_tenor and
\* max_tenor are known
PartitionTenors(c, dates_t, tenors, min_tenor, max_tenor, normal_tenors) ==
    SumOfParts(c, dates_t,
               Cardinality({i \in DOMAIN tenors : tenors[i] < min_tenor}),
               [j \in DOMAIN normal_tenors |->
                   get_y_value(c._df_interpolator,
                               RNorm(normal_tenors[j], c._rate_conv.time_fraction_base))],
               \E i \in DOMAIN tenors : tenors[i] < min_tenor \/ tenors[i] > max_tenor)

TenorsInRange(c, dates_t, tenors, min_tenor, max_tenor) ==
    PartitionTenors(c, dates_t, tenors, min_tenor, max_tenor,
                    SelectInRange(tenors, min_tenor, max_tenor))

TenorBounds(c, dates_t, tenors, days) ==
    TenorsInRange(c, dates_t, tenors, SeqMin(days), SeqMax(days))

\* the other branch of get_dfs
DfsPartitioned(c, dates_t) ==
    TenorBounds(c, dates_t,
                [i \in DOMAIN dates_t |->
                    get_day_count(c.curve_date, dates_t[i], c._rate_conv.day_count_convention)],
                [i \in DOMAIN c.dates |->
                    get_day_count(c.curve_date, c.dates[i], c._rate_conv.day_count_convention)])

\* the array get_dfs computes when the cache has no entry
ComputeDfs(c, dates_t) ==
    IF c._df_interpolator.extrapolate
    THEN [err |-> "", ret |-> DfsExtrapolated(c, dates_t)]
    ELSE DfsPartitioned(c, dates_t)

\* self._cashed_dfs[hashed_inputs] = dfs; return dfs
CacheStore(c, hashed_inputs, r) ==
    IF r.err # "" THEN [err |-> r.err, curve |-> c, ret |-> <<>>]
    ELSE [err |-> "",
          curve |-> [c EXCEPT !._cashed_dfs =
                        [k \in DOMAIN c._cashed_dfs \cup {hashed_inputs} |->
                            IF k = hashed_inputs THEN r.ret ELSE c._cashed_dfs[k]]],
          ret |-> r.ret]

\* ZeroCouponCurve.get_dfs
get_dfs(c, dates_t) ==
    IF <<c._str_dates_rates, dates_t>> \in DOMAIN c._cashed_dfs
    THEN [err |-> "", curve |-> c, ret |-> c._cashed_dfs[<<c._str_dates_rates, dates_t>>]]
    ELSE CacheStore(c, <<c._str_dates_rates, dates_t>>, ComputeDfs(c, dates_t))

(***************************************************************************)
(* The curve as a state machine: one action per public call                *)
(***************************************************************************)
MaxCalls == 3          \* calls made on the curve after construction
MaxIter  == 1          \* maxiter of the z-spread solver

CurveDate == MkDate(2024, 1, 2)

Compounded365 == RateConvention("Compounded", "Actual", 365)
Linear360     == RateConvention("Linear", "Actual", 360)

\* inputs of the calls
CurveConventions == {Compounded365, Linear360}
PointDates   == {CurveDate - 1, CurveDate, CurveDate + 2}
PointCodes   == {7}
DeleteDates  == {CurveDate + 2, CurveDate + 4}
ShiftCodes   == {-2, 2}
QueryDates   == {<<CurveDate + 3>>, <<CurveDate + 5, CurveDate + 3, CurveDate + 1>>}
BondDates    == <<CurveDate + 3, CurveDate + 5>>

\* point lists a curve is constructed from: sorted, unsorted, repeated date
InitPointLists ==
    {<<ZeroCouponCurvePoint(CurveDate + 2, Compounded365, 7),
       ZeroCouponCurvePoint(CurveDate + 4, Compounded365, 6)>>,
     <<ZeroCouponCurvePoint(CurveDate + 4, Linear360, 6),
       ZeroCouponCurvePoint(CurveDate + 2, Compounded365, 7)>>,
     <<ZeroCouponCurvePoint(CurveDate + 2, Compounded365, 7),
       ZeroCouponCurvePoint(CurveDate + 2, Compounded365, 5),
       ZeroCouponCurvePoint(CurveDate + 4, Compounded365, 6)>>,
     <<ZeroCouponCurvePoint(CurveDate + 2, Compounded365, 7)>>}

ZsIdle == [pc |-> "idle", entry |-> <<>>, iter |-> 0]

\* the record of a finished call: its curve before (pre), its outcome, and the
\* call finished before it (prev)
Call(op, arg, err, ret, pre) ==
    [op |-> op, arg |-> arg, err |-> err, ret |-> ret, pre |-> pre, n |-> last.n + 1,
     prev |-> [op |-> last.op, arg |-> last.arg, err |-> last.err, pre |-> last.pre]]

CanCall == zs.pc = "idle" /\ last.n < MaxCalls

\* the call op(arg) on the curve ends with the outcome r
Returns(op, arg, r) ==
    /\ curve' = r.curve
    /\ last' = Call(op, arg, r.err, r.ret, curve)
    /\ UNCHANGED <<zs, calendar, rate, bond, memo>>

InitCurve ==
    /\ \E pts \in InitPointLists : curve = NewCurve(CurveDate, pts)
    /\ last = [op |-> "__post_init__", arg |-> <<>>, err |-> "", ret |-> <<>>,
               pre |-> curve, n |-> 0,
               prev |-> [op |-> "", arg |-> <<>>, err |-> "", pre |-> curve]]
    /\ zs = ZsIdle
    /\ calendar = NoObject /\ rate = NoObject /\ bond = NoObject /\ memo = NoObject

AddPoint ==
    /\ CanCall
    /\ \E d \in PointDates, cv \in CurveConventions, code \in PointCodes :
          Returns("add_point", ZeroCouponCurvePoint(d, cv, code),
                  add_point(curve, ZeroCouponCurvePoint(d, cv, code)))

DeletePoint ==
    /\ CanCall
    /\ \E d \in DeleteDates : Returns("delete_point", d, delete_point(curve, d))

\* the shifted rate values stay in the range where 1 + r > 0
MaxRateCode == FloatScale \div 2

ShiftInRange(c, q) ==
    \A i \in DOMAIN c.curve_points :
        Abs(c.curve_points[i].rate.rate_value + q) <= MaxRateCode

ParallelShift ==
    /\ CanCall
    /\ \E q \in ShiftCodes :
          /\ ShiftInRange(curve, q)
          /\ Returns("parallel_shift", q, parallel_shift(curve, q))

GetDfs ==
    /\ CanCall
    /\ \E dates_t \in QueryDates : Returns("get_dfs", dates_t, get_dfs(curve, dates_t))

\* the curve method get_z_spread calls for a trial bump; the class defines the
\* shift under the name parallel_shift
parallel_bump_rates_bps(c, q) == parallel_shift(c, q)

\* Bond.get_present_value_zc as far as the curve is concerned
get_present_value_zc(c) == get_dfs(c, BondDates)

\* bp_bump_curve_value after the evaluation of the bumped curve: the counter-bump
CounterBump(ev, q) ==
    IF ev.err # "" THEN ev ELSE parallel_bump_rates_bps(ev.curve, -q)

\* bp_bump_curve_value after the bump: the evaluation
EvaluateBumped(b, q) ==
    IF b.err # "" THEN b ELSE CounterBump(get_present_value_zc(b.curve), q)

\* bp_bump_curve_value(bp_bump) of get_z_spread, as far as the curve is
\* concerned: bump, evaluate, counter-bump; an exception ends it where it is
bp_bump_curve_value(c, q) == EvaluateBumped(parallel_bump_rates_bps(c, q), q)

\* get_z_spread before the solver: r is the outcome of the evaluation for the
\* initial guess
Started(guessGiven, r) ==
    /\ curve' = r.curve
    /\ IF r.err # ""
       THEN /\ last' = Call("get_z_spread", guessGiven, r.err, <<>>, curve)
            /\ zs' = ZsIdle
       ELSE /\ zs' = [pc |-> "newton", entry |-> curve, iter |-> 0]
            /\ UNCHANGED last
    /\ UNCHANGED <<calendar, rate, bond, memo>>

\* Bond.get_z_spread up to the call of the solver; with initial_guess None the
\* curve is evaluated once for the guess
ZSpreadStart ==
    /\ CanCall
    /\ \E guessGiven \in BOOLEAN :
          Started(guessGiven,
                  IF guessGiven THEN [err |-> "", curve |-> curve]
                  ELSE get_present_value_zc(curve))

\* the solver has evaluated bp_bump_curve_value(q) with outcome r
Tried(q, r) ==
    /\ curve' = r.curve
    /\ IF r.err # ""
       THEN /\ last' = Call("get_z_spread", q, r.err, <<>>, zs.entry)
            /\ zs' = ZsIdle
       ELSE /\ zs' = [zs EXCEPT !.iter = @ + 1]
            /\ UNCHANGED last
    /\ UNCHANGED <<calendar, rate, bond, memo>>

\* one evaluation of bp_bump_curve_value by the solver
ZSpreadTrial ==
    /\ zs.pc = "newton"
    /\ zs.iter < MaxIter
    /\ \E q \in ShiftCodes :
          /\ ShiftInRange(curve, q)
          /\ Tried(q, bp_bump_curve_value(curve, q))

\* the solver converges and get_z_spread returns
ZSpreadReturn ==
    /\ zs.pc = "newton"
    /\ zs.iter >= 1
    /\ last' = Call("get_z_spread", zs.iter, "", <<>>, zs.entry)
    /\ zs' = ZsIdle
    /\ UNCHANGED <<curve, calendar, rate, bond, memo>>

\* the solver runs out of iterations and raises
ZSpreadRaise ==
    /\ zs.pc = "newton"
    /\ zs.iter = MaxIter
    /\ last' = Call("get_z_spread", zs.iter, "RuntimeError", <<>>, zs.entry)
    /\ zs' = ZsIdle
    /\ UNCHANGED <<curve, calendar, rate, bond, memo>>

Init == InitCurve

Next ==
    \/ AddPoint
    \/ DeletePoint
    \/ ParallelShift
    \/ GetDfs
    \/ ZSpreadStart
    \/ ZSpreadTrial
    \/ ZSpreadReturn
    \/ ZSpreadRaise

Spec == Init /\ [][Next]_vars

(***************************************************************************)
(* Properties of the curve                                                 *)
(***************************************************************************)
\* get_dfs(dates_t) of a freshly constructed curve holding the points of c
FreshDfs(c, dates_t) == ComputeDfs(NewCurve(c.curve_date, c.curve_points), dates_t).ret

RateValuesOf(c) == [i \in DOMAIN c.curve_points |-> c.curve_points[i].rate.rate_value]

\* C1: whenever get_dfs returns for a curve that holds points, the array it
\* returns is the one a freshly constructed curve with the same points
\* computes for the same dates: no cached array outlives the curve state it
\* was computed from, whatever add_point, delete_point or parallel shift
\* came before.
C1_CacheNeverStale ==
    (last.op = "get_dfs" /\ last.err = "" /\ last.pre.curve_points # <<>>)
        => last.ret = FreshDfs(last.pre, last.arg)

\* C2: a parallel shift by q directly followed by the shift by -q leaves every
\* point with the rate value it had before the two shifts, and get_dfs of the
\* curve computes what it computed before them.
C2_BumpIsReversible ==
    (/\ last.op = "parallel_shift" /\ last.err = ""
     /\ last.prev.op = "parallel_shift" /\ last.prev.err = ""
     /\ last.arg = -last.prev.arg)
        => /\ RateValuesOf(curve) = RateValuesOf(last.prev.pre)
           /\ \A dates_t \in QueryDates :
                  FreshDfs(curve, dates_t) = FreshDfs(last.prev.pre, dates_t)

StrictlyIncreasingDates(points) ==
    \A i \in 1..(Len(points) - 1) : points[i].date < points[i + 1].date

\* C4: the points of the curve are strictly increasing in date, after
\* construction and after every add_point and delete_point, and an add_point
\* that is not refused for its date ends with exactly its point at that date.
C4_PointsSortedUnique ==
    /\ StrictlyIncreasingDates(curve.curve_points)
    /\ (last.op = "add_point" /\ last.arg.date >= curve.curve_date)
          => /\ last.err = ""
             /\ \E i \in DOMAIN curve.curve_points : curve.curve_points[i] = last.arg
             /\ Cardinality({i \in DOMAIN curve.curve_points :
                                curve.curve_points[i].date = last.arg.date}) = 1

\* The curve with its discount-factor interpolator switched to the branch of
\* get_dfs that does not extrapolate: the interpolator's field `extrapolate`
\* is set to False by the curve's user.  _complete_curve builds a new
\* interpolator, with the default again, at every mutation.
SetExtrapolate ==
    /\ CanCall
    /\ curve._df_interpolator.extrapolate
    /\ Returns("extrapolate", FALSE,
               [err |-> "", ret |-> <<>>,
                curve |-> [curve EXCEPT !._df_interpolator.extrapolate = FALSE]])

NextExtrap ==
    \/ AddPoint
    \/ DeletePoint
    \/ ParallelShift
    \/ GetDfs
    \/ SetExtrapolate

SpecExtrap == Init /\ [][NextExtrap]_vars

MonthDayRule(month, day, monday_adjustable) ==
    [kind |-> "MonthDayRule", month |-> month, day |-> day,
     monday_adjustable |-> monday_adjustable]

OrdinalWeekWeekdayRule(ordinal, weekday, month) ==
    [kind |-> "OrdinalWeekWeekdayRule", ordinal |-> ordinal, weekday |-> weekday,
     month |-> month]

LastWeekWeekdayRule(weekday, month) ==
    [kind |-> "LastWeekWeekdayRule", weekday |-> weekday, month |-> month]

ConsecutiveHolidaySandwichRule(first, second) ==
    [kind |-> "ConsecutiveHolidaySandwichRule", consecutive_holiday_rules |-> <<first, second>>]

FridayEasterRule == [kind |-> "FridayEasterRule"]

\* _easter_sunday(year), from h and l of the computus
EasterFrom(year, h, l, m) ==
    MkDate(year, (h + l - 7 * m + 114) \div 31, ((h + l - 7 * m + 114) % 31) + 1)

EasterHL(year, a, h, l) == EasterFrom(year, h, l, (a + 11 * h + 22 * l) \div 451)

EasterH(year, a, b, c, h) ==
    EasterHL(year, a, h, (32 + 2 * (b % 4) + 2 * (c \div 4) - h - (c % 4)) % 7)

EasterABC(year, a, b, c) ==
    EasterH(year, a, b, c,
            (19 * a + b - (b \div 4) - ((b - ((b + 8) \div 25) + 1) \div 3) + 15) % 30)

_easter_sunday(year) == EasterABC(year, year % 19, year \div 100, year % 100)

\* MonthDayRule.get_date, from t = date(year, month, day)
MonthDayAdjusted(t, monday_adjustable) ==
    IF ~monday_adjustable THEN t
    ELSE IF 1 <= Weekday(t) /\ Weekday(t) <= 3 THEN t + (4 - Weekday(t))
    ELSE IF Weekday(t) = 4 THEN t + 3
    ELSE t

MonthDayRule_get_date(r, year) ==
    MonthDayAdjusted(MkDate(year, r.month, r.day), r.monday_adjustable)

\* OrdinalWeekWeekdayRule.get_date, from first_day = date(year, month, 1)
OrdinalWeekday(first_day, weekday, ordinal) ==
    first_day + ((weekday - Weekday(first_day)) % 7) + 7 * (ordinal - 1)

\* LastWeekWeekdayRule.get_date, from the last day of the month
LastWeekday(last_day, weekday) == last_day - ((Weekday(last_day) - weekday) % 7)

\* ConsecutiveHolidaySandwichRule.get_date, from the dates of its two rules
Sandwich(d0, d1) ==
    IF Weekday(d0) = 1 THEN <<d0 - 1>>
    ELSE IF Weekday(d1) = 3 THEN <<d1 + 1>>
    ELSE <<>>

\* HolidayRule.get_date
get_date(r, year) ==
    CASE r.kind = "MonthDayRule" -> <<MonthDayRule_get_date(r, year)>>
      [] r.kind = "OrdinalWeekWeekdayRule" ->
            <<OrdinalWeekday(MkDate(year, r.month, 1), r.weekday, r.ordinal)>>
      [] r.kind = "LastWeekWeekdayRule" ->
            <<LastWeekday(MkDate(year, r.month, DaysInMonth(year, r.month)), r.weekday)>>
      [] r.kind = "ConsecutiveHolidaySandwichRule" ->
            Sandwich(MonthDayRule_get_date(r.consecutive_holiday_rules[1], year),
                     MonthDayRule_get_date(r.consecutive_holiday_rules[2], year))
      [] r.kind = "FridayEasterRule" -> <<_easter_sunday(year) - 2>>

Calendar(holiday_rules, custom_holidays) ==
    [holiday_rules |-> holiday_rules, custom_holidays |-> custom_holidays]

\* Calendar.__post_init__: the weekdays after which the next (previous)
\* weekday is one day away
_add_one_day_week_days       == {0, 1, 2, 3, 6}
_substract_one_day_week_days == {1, 2, 3, 4, 5}

\* sorted(set(dates))
RECURSIVE SortedSet(_)
SortedSet(S) ==
    IF S = {} THEN <<>>
    ELSE <<CHOOSE m \in S : \A x \in S : m <= x>>
         \o SortedSet(S \ {CHOOSE m \in S : \A x \in S : m <= x})

SeqRange(sq) == {sq[i] : i \in DOMAIN sq}

\* Calendar._fix_custom_holidays
_fix_custom_holidays(cal) ==
    [cal EXCEPT !.custom_holidays = SortedSet(SeqRange(cal.custom_holidays))]

\* Calendar.add_custom_holiday
add_custom_holiday(cal, d) ==
    _fix_custom_holidays([cal EXCEPT !.custom_holidays = Append(cal.custom_holidays, d)])

\* Calendar.delete_custom_holidays
delete_custom_holidays(cal) == [cal EXCEPT !.custom_holidays = <<>>]

\* any(date == rule.get_date(year) for rule in holiday_rules)
AnyRuleYields(rules, d, year) ==
    \E i \in DOMAIN rules : get_date(rules[i], year) = <<d>>

\* Calendar.is_holiday
is_holiday(cal, d) ==
    \/ d \in SeqRange(cal.custom_holidays)
    \/ AnyRuleYields(cal.holiday_rules, d, YearOf(d))

\* while self.is_holiday(following): following += timedelta(days=1)
RECURSIVE WhileHolidayForward(_, _)
WhileHolidayForward(cal, following) ==
    IF is_holiday(cal, following) THEN WhileHolidayForward(cal, following + 1)
    ELSE following

\* while self.is_holiday(preceding): preceding -= timedelta(days=1)
RECURSIVE WhileHolidayBackward(_, _)
WhileHolidayBackward(cal, preceding) ==
    IF is_holiday(cal, preceding) THEN WhileHolidayBackward(cal, preceding - 1)
    ELSE preceding

\* Calendar.add_business_day
add_business_day(cal, t) ==
    WhileHolidayForward(cal,
        t + (IF Weekday(t) \in _add_one_day_week_days THEN 1
             ELSE IF Weekday(t) = 4 THEN 3 ELSE 2))

\* Calendar.subtract_business_day
subtract_business_day(cal, t) ==
    WhileHolidayBackward(cal,
        t - (IF Weekday(t) \in _substract_one_day_week_days THEN 1
             ELSE IF Weekday(t) = 0 THEN 3 ELSE 2))

(***************************************************************************)
(* Date adjustment conventions (dates/adjustments.py)                      *)
(***************************************************************************)
\* FollowingConvention.adjust
FollowingConvention_adjust(cal, d) ==
    IF is_holiday(cal, d) THEN add_business_day(cal, d) ELSE d

\* PrecedingConvention.adjust
PrecedingConvention_adjust(cal, d) ==
    IF is_holiday(cal, d) THEN subtract_business_day(cal, d) ELSE d

SameMonthOr(new_date, d, other) == IF MonthOf(new_date) = MonthOf(d) THEN new_date ELSE other

\* ModifiedFollowingConvention.adjust
ModifiedFollowingConvention_adjust(cal, d) ==
    SameMonthOr(FollowingConvention_adjust(cal, d), d, PrecedingConvention_adjust(cal, d))

\* ModifiedPrecedingConvention.adjust
ModifiedPrecedingConvention_adjust(cal, d) ==
    SameMonthOr(PrecedingConvention_adjust(cal, d), d, FollowingConvention_adjust(cal, d))

AdjustmentConventions ==
    {"Following", "ModifiedFollowing", "Preceding", "ModifiedPreceding"}

adjust(conv, cal, d) ==
    CASE conv = "Following"         -> FollowingConvention_adjust(cal, d)
      [] conv = "ModifiedFollowing" -> ModifiedFollowingConvention_adjust(cal, d)
      [] conv = "Preceding"         -> PrecedingConvention_adjust(cal, d)
      [] conv = "ModifiedPreceding" -> ModifiedPrecedingConvention_adjust(cal, d)

(***************************************************************************)
(* The calendar as a state machine                                         *)
(***************************************************************************)
MaxCalendarCalls == 2      \* calls made on the calendar after construction

\* Thursday 2024-01-04 .. Tuesday 2024-01-09
CalendarDates == MkDate(2024, 1, 4) .. MkDate(2024, 1, 9)
CustomDates   == {MkDate(2024, 1, 5), MkDate(2024, 1, 8)}

InitCalendars ==
    {Calendar(<<>>, <<>>),
     Calendar(<<MonthDayRule(1, 5, FALSE)>>, <<>>),
     Calendar(<<OrdinalWeekWeekdayRule(2, 0, 1), MonthDayRule(1, 3, TRUE)>>,
              <<MkDate(2024, 1, 9)>>)}

InitCalendar ==
    /\ calendar \in InitCalendars
    /\ last = [op |-> "__post_init__", arg |-> <<>>, err |-> "", ret |-> <<>>,
               pre |-> calendar, n |-> 0,
               prev |-> [op |-> "", arg |-> <<>>, err |-> "", pre |-> calendar]]
    /\ zs = ZsIdle
    /\ curve = NoObject /\ rate = NoObject /\ bond = NoObject /\ memo = NoObject

CanCallCalendar == last.n < MaxCalendarCalls

\* a call that reads the calendar and returns ret
Answers(op, arg, ret) ==
    /\ last' = Call(op, arg, "", ret, calendar)
    /\ UNCHANGED <<calendar, curve, rate, bond, zs, memo>>

\* a call that leaves the calendar as cal
Becomes(op, arg, cal) ==
    /\ calendar' = cal
    /\ last' = Call(op, arg, "", <<>>, calendar)
    /\ UNCHANGED <<curve, rate, bond, zs, memo>>

AddCustomHoliday ==
    /\ CanCallCalendar
    /\ \E d \in CustomDates : Becomes("add_custom_holiday", d, add_custom_holiday(calendar, d))

DeleteCustomHolidays ==
    /\ CanCallCalendar
    /\ Becomes("delete_custom_holidays", <<>>, delete_custom_holidays(calendar))

IsHoliday ==
    /\ CanCallCalendar
    /\ \E d \in CalendarDates : Answers("is_holiday", d, is_holiday(calendar, d))

AddBusinessDay ==
    /\ CanCallCalendar
    /\ \E t \in CalendarDates : Answers("add_business_day", t, add_business_day(calendar, t))

SubtractBusinessDay ==
    /\ CanCallCalendar
    /\ \E t \in CalendarDates :
          Answers("subtract_business_day", t, subtract_business_day(calendar, t))

Adjust ==
    /\ CanCallCalendar
    /\ \E conv \in AdjustmentConventions, d \in CalendarDates :
          Answers("adjust", <<conv, d>>, adjust(conv, calendar, d))

NextCalendar ==
    \/ AddCustomHoliday
    \/ DeleteCustomHolidays
    \/ IsHoliday
    \/ AddBusinessDay
    \/ SubtractBusinessDay
    \/ Adjust

SpecCalendar == InitCalendar /\ [][NextCalendar]_vars

(***************************************************************************)
(* Properties of the calendar                                              *)
(***************************************************************************)
SearchDays == 10       \* how far a nearest business day is looked for

IsWeekend(d) == Weekday(d) \in {5, 6}

\* d is a Saturday or Sunday, or a rule of cal yields d for d's year, or d is
\* a custom holiday of cal
HolidayOrWeekend(cal, d) ==
    \/ IsWeekend(d)
    \/ AnyRuleYields(cal.holiday_rules, d, YearOf(d))
    \/ d \in SeqRange(cal.custom_holidays)

\* C5: is_holiday(d) answers TRUE exactly when d is a Saturday or a Sunday, or
\* some holiday rule of the calendar yields d for d's year, or d is one of the
\* custom holidays.
C5_IsHolidayIffWeekendRuleOrCustom ==
    last.op = "is_holiday" => (last.ret <=> HolidayOrWeekend(last.pre, last.arg))

\* the first date after t, and the first before t, that is neither weekend
\* nor holiday of cal
NearestBusinessDayAfter(cal, t) ==
    CHOOSE d \in (t + 1)..(t + SearchDays) :
        /\ ~HolidayOrWeekend(cal, d)
        /\ \A e \in (t + 1)..(d - 1) : HolidayOrWeekend(cal, e)

NearestBusinessDayBefore(cal, t) ==
    CHOOSE d \in (t - SearchDays)..(t - 1) :
        /\ ~HolidayOrWeekend(cal, d)
        /\ \A e \in (d + 1)..(t - 1) : HolidayOrWeekend(cal, e)

\* C6: add_business_day(t) returns the nearest date after t, and
\* subtract_business_day(t) the nearest date before t, that is no holiday by
\* the rules or the custom list and is no Saturday or Sunday.
C6_BusinessDayIsNearestWeekday ==
    /\ last.op = "add_business_day" =>
          last.ret = NearestBusinessDayAfter(last.pre, last.arg)
    /\ last.op = "subtract_business_day" =>
          last.ret = NearestBusinessDayBefore(last.pre, last.arg)

(***************************************************************************)
(* The Rate object and convert_rate_conventions (rates/Rates.py)           *)
(***************************************************************************)
\* Rate(rate_convention, rate_value) with a Python float as value
Rate(conv, q) == [rate_convention |-> conv, rate_value |-> NumRat(q), np |-> FALSE]

\* the assignment of self.rate_value left out
KeepRateValue(r1, new) == [err |-> new.err, rate |-> r1]

\* convert_rate_conventions after self.rate_convention has been assigned:
\* new is the outcome of get_rate_from_wf
AssignRateValue(r1, new) ==
    IF new.err # "" THEN [err |-> new.err, rate |-> r1]
    ELSE [err |-> "",
          rate |-> [r1 EXCEPT !.rate_value = new.rate.rate_value, !.np = new.rate.np]]

\* Rate.convert_rate_conventions: [err, rate] with rate the object afterwards
convert_rate_conventions(r, conv, s, e) ==
    AssignRateValue([r EXCEPT !.rate_convention = conv],
                    get_rate_from_wf(get_wealth_factor(r, s, e), s, e, conv))

MaxRateCalls == 2      \* conversions made on the Rate

\* the date pairs conversions are made over: 25 days from 2023-10-17, and
\* 2024-01-30 to 2024-01-31 (one day, none by the 30/360 count)
DatePairs ==
    {<<MkDate(2023, 10, 17), MkDate(2023, 10, 17) + 25>>,
     <<MkDate(2024, 1, 30), MkDate(2024, 1, 31)>>}

RateValues == {<<3, 100>>, <<-1, 100>>}

RateConventions ==
    {RateConvention(ic, dcc, base) :
        ic \in InterestConvention, dcc \in {"Actual", "Days30A"}, base \in {360, 365}}

InitRateConventions ==
    {RateConvention("Linear", "Actual", 360), RateConvention("Compounded", "Actual", 365),
     RateConvention("Exponential", "Days30A", 360)}

\* a Rate is constructed; the calls to come convert it over one date pair
InitRate ==
    /\ \E conv \in InitRateConventions, q \in RateValues : rate = Rate(conv, q)
    /\ \E p \in DatePairs :
          last = [op |-> "__post_init__",
                  arg |-> [rate_convention |-> rate.rate_convention,
                           start_date |-> p[1], end_date |-> p[2]],
                  err |-> "", ret |-> <<>>, pre |-> rate, n |-> 0,
                  prev |-> [op |-> "", arg |-> <<>>, err |-> "", pre |-> rate]]
    /\ zs = ZsIdle
    /\ curve = NoObject /\ calendar = NoObject /\ bond = NoObject /\ memo = NoObject

\* the call returns None (<<>>) and leaves the Rate as r.rate
Converted(arg, r) ==
    /\ rate' = r.rate
    /\ last' = Call("convert_rate_conventions", arg, r.err, <<>>, rate)
    /\ UNCHANGED <<curve, calendar, bond, zs, memo>>

ConvertRateConventions ==
    /\ last.n < MaxRateCalls
    /\ \E conv \in RateConventions :
          Converted([rate_convention |-> conv,
                     start_date |-> last.arg.start_date, end_date |-> last.arg.end_date],
                    convert_rate_conventions(rate, conv,
                                             last.arg.start_date, last.arg.end_date))

NextRate == ConvertRateConventions

SpecRate == InitRate /\ [][NextRate]_vars

(***************************************************************************)
(* Properties of the conversion.                                           *)
(***************************************************************************)
\* two wealth factors that are the same positive number
SameWealth(a, b) == a.k = "pos" /\ b.k = "pos" /\ a.l = b.l

\* the time fraction of (s, e) under conv is not zero
HasTimeFraction(conv, s, e) == Rate_get_time_fraction(conv, s, e)[1] # 0

\* what the last call did to the wealth factor over (s, e), the call's pair
ConversionPreservesWealth(s, e) ==
    /\ last.err = ""
    /\ rate.rate_convention = last.arg.rate_convention
    /\ SameWealth(get_wealth_factor(last.pre, s, e), get_wealth_factor(rate, s, e))

\* the outcome r of an inverse is a rate whose wealth factor over (s, e) is wf
Recovers(r, wf, s, e) ==
    r.err = "" /\ SameWealth(get_wealth_factor(r.rate, s, e), wf)

\* get_rate_from_wf(wf, s, e, c) and get_rate_from_df(1 / wf, s, e, c) return
\* a rate whose wealth factor over (s, e) is wf
InverseRecovers(wf, s, e, c) ==
    /\ Recovers(get_rate_from_wf(wf, s, e, c), wf, s, e)
    /\ Recovers(get_rate_from_df(Reciprocal(wf), s, e, c), wf, s, e)

\* the wealth factor of the Rate before the last call is a positive number
HadWealth(s, e) == get_wealth_factor(last.pre, s, e).k = "pos"

ConvertedRate(r0, conv, s, e) == get_rate_from_wf(get_wealth_factor(r0, s, e), s, e, conv)

Coupon_validate_inputs(amortization, residual, start_date, end_date) ==
    CASE ~RLt(RZero, residual) -> "ValueError"
      [] RLt(residual, amortization) -> "ValueError"
      [] start_date >= end_date -> "ValueError"
      [] OTHER -> ""

\* Coupon(amortization, interest, residual, start_date, end_date)
Coupon(amortization, interest, residual, start_date, end_date) ==
    [err |-> Coupon_validate_inputs(amortization, residual, start_date, end_date),
     obj |-> [amortization |-> amortization, interest |-> interest,
              residual |-> residual, start_date |-> start_date, end_date |-> end_date,
              flow |-> RAdd(amortization, interest)]]

\* sorted(coupons, key=start_date): stable
RECURSIVE InsertCoupon(_, _)
InsertCoupon(sq, c) ==
    IF sq = <<>> THEN <<c>>
    ELSE IF sq[Len(sq)].start_date <= c.start_date THEN Append(sq, c)
    ELSE Append(InsertCoupon(SubSeq(sq, 1, Len(sq) - 1), c), sq[Len(sq)])

RECURSIVE SortCoupons(_)
SortCoupons(sq) ==
    IF sq = <<>> THEN <<>>
    ELSE InsertCoupon(SortCoupons(SubSeq(sq, 1, Len(sq) - 1)), sq[Len(sq)])

\* round(x, 1) for a rational x, as a rational: the nearest tenth, a tie to
\* the even one
Round1(x) ==
    LET n == 10 * x[1]
        f == n \div x[2]
        twice == 2 * (n - f * x[2])
    IN  IF twice > x[2] \/ (twice = x[2] /\ f % 2 = 1) THEN RNorm(f + 1, 10)
        ELSE RNorm(f, 10)

\* sum of the amortizations of coupons i .. Len(cs)
RECURSIVE SumAmortization(_, _)
SumAmortization(cs, i) ==
    IF i > Len(cs) THEN RZero
    ELSE RAdd(cs[i].amortization, SumAmortization(cs, i + 1))

\* the test of validate_residuals on coupon i:
\* round(calculated, 1) / round(residual, 1) - 1 > 1 / 100
ResidualCheck(calculated, residual) ==
    IF Round1(residual)[1] = 0 THEN "ZeroDivisionError"
    ELSE IF RLt(<<1, 100>>, RSub(RDiv(Round1(calculated), Round1(residual)), ROne))
         THEN "ValueError"
    ELSE ""

\* Coupons.validate_residuals from coupon i on: the first error raised
RECURSIVE validate_residuals(_, _)
validate_residuals(cs, i) ==
    IF i > Len(cs) THEN ""
    ELSE IF ResidualCheck(SumAmortization(cs, i), cs[i].residual) # ""
         THEN ResidualCheck(SumAmortization(cs, i), cs[i].residual)
    ELSE validate_residuals(cs, i + 1)

\* the Coupons object over the sorted list
CouponsObject(cs, check_residuals) ==
    [stage |-> "Coupons", coupons |-> cs, check_residuals |-> check_residuals,
     first_start_date |-> cs[1].start_date,
     flows |-> [i \in DOMAIN cs |-> cs[i].flow],
     end_dates |-> [i \in DOMAIN cs |-> cs[i].end_date]]

\* Coupons.__post_init__ for a list of Coupon objects
Coupons(lst, check_residuals) ==
    IF lst = <<>> THEN [err |-> "IndexError", obj |-> NoObject]
    ELSE IF check_residuals /\ validate_residuals(SortCoupons(lst), 1) # ""
         THEN [err |-> validate_residuals(SortCoupons(lst), 1), obj |-> NoObject]
    ELSE [err |-> "", obj |-> CouponsObject(SortCoupons(lst), check_residuals)]

\* the loop on one coupon without its last line: flow is left as it was
ScaleCouponKeepsFlow(c, ratio) ==
    [c EXCEPT !.amortization = RMul(c.amortization, ratio),
              !.residual = RMul(c.residual, ratio),
              !.interest = RMul(c.interest, ratio)]

\* the loop of adjust_to_notional on one coupon
ScaleCoupon(c, ratio) ==
    [c EXCEPT !.amortization = RMul(c.amortization, ratio),
              !.residual = RMul(c.residual, ratio),
              !.interest = RMul(c.interest, ratio),
              !.flow = RAdd(RMul(c.amortization, ratio), RMul(c.interest, ratio))]

\* the checks that end adjust_to_notional when check_residuals is set
AdjustChecks(cs, notional) ==
    IF ~RLt(RSub(RDiv(Round1(SumAmortization(cs, 1)), Round1(notional)), ROne), <<1, 100>>)
    THEN "AssertionError"
    ELSE validate_residuals(cs, 1)

\* the Coupons object with its coupons scaled, and the error of the checks
Adjusted(co, cs, notional) ==
    [err |-> IF co.check_residuals THEN AdjustChecks(cs, notional) ELSE "",
     obj |-> [co EXCEPT !.coupons = cs]]

\* Coupons.adjust_to_notional: the coupons are scaled in place
adjust_to_notional(co, notional) ==
    Adjusted(co,
             [i \in DOMAIN co.coupons |->
                 ScaleCoupon(co.coupons[i], RDiv(notional, co.coupons[1].residual))],
             notional)

\* Bond.__init__ after adjust_to_notional(100) has left the outcome adj.
\* With tera None calculate_tera calls get_irr_from_present_value, which reads
\* self.tera before it has been assigned: AttributeError.
BondObject(adj, notional, tera) ==
    IF adj.err # "" THEN [err |-> adj.err, obj |-> adj.obj]
    ELSE IF tera = NoObject THEN [err |-> "AttributeError", obj |-> adj.obj]
    ELSE [err |-> "",
          obj |-> [stage |-> "Bond", coupons |-> adj.obj, notional |-> notional,
                   start_date |-> adj.obj.first_start_date,
                   end_dates |-> adj.obj.end_dates, tera |-> tera]]

\* Bond(coupons, currency, notional, tera): obj is the Bond, or the Coupons
\* object as the failed call leaves it
Bond(co, notional, tera) == BondObject(adjust_to_notional(co, <<100, 1>>), notional, tera)

(***************************************************************************)
(* The bond state machine: Coupon objects are collected in a list, the     *)
(* list is given to Coupons, the Coupons object to Bond.                   *)
(***************************************************************************)
MaxCoupons   == 2      \* coupons in the list
MaxBondCalls == 4      \* constructor calls

IssueDate == MkDate(2024, 1, 1)

\* inputs of the constructors
CouponPeriods ==
    {<<IssueDate, IssueDate + 182>>, <<IssueDate + 182, IssueDate + 366>>,
     <<IssueDate + 182, IssueDate>>}
Amortizations == {<<0, 1>>, <<50, 1>>, <<100, 1>>}
Residuals     == {<<0, 1>>, <<50, 1>>, <<100, 1>>}
Interests     == {<<3, 1>>}
Notionals     == {<<1000, 1>>}
Teras         == {NoObject, Rate(Compounded365, <<3, 100>>)}

CouponList(lst) == [stage |-> "list", coupons |-> lst]

InitBond ==
    /\ bond = CouponList(<<>>) /\ memo = NoObject
    /\ last = [op |-> "list", arg |-> <<>>, err |-> "", ret |-> <<>>, pre |-> bond, n |-> 0,
               prev |-> [op |-> "", arg |-> <<>>, err |-> "", pre |-> bond]]
    /\ zs = ZsIdle
    /\ curve = NoObject /\ calendar = NoObject /\ rate = NoObject

CanCallBond == last.n < MaxBondCalls

\* a constructor call with the outcome r; next is the bond variable afterwards
Constructs(op, arg, r, next) ==
    /\ bond' = next
    /\ last' = Call(op, arg, r.err, r.obj, bond)
    /\ UNCHANGED <<curve, calendar, rate, zs, memo>>

\* a Coupon is constructed and appended to the list
Appended(arg, r) ==
    Constructs("Coupon", arg, r,
               IF r.err = "" THEN CouponList(Append(bond.coupons, r.obj)) ELSE bond)

NewCoupon ==
    /\ CanCallBond /\ bond.stage = "list" /\ Len(bond.coupons) < MaxCoupons
    /\ \E a \in Amortizations, i \in Interests, r \in Residuals, p \in CouponPeriods :
          Appended([amortization |-> a, interest |-> i, residual |-> r,
                    start_date |-> p[1], end_date |-> p[2]],
                   Coupon(a, i, r, p[1], p[2]))

\* Coupons(list) and Coupons(list, check_residuals=True)
NewCoupons ==
    /\ CanCallBond /\ bond.stage = "list"
    /\ \E check \in BOOLEAN :
          Constructs("Coupons", [coupons |-> bond.coupons, check_residuals |-> check],
                     Coupons(bond.coupons, check),
                     IF Coupons(bond.coupons, check).err = ""
                     THEN Coupons(bond.coupons, check).obj ELSE bond)

\* Bond(coupons, currency, notional) and Bond(coupons, currency, notional, tera)
NewBond ==
    /\ CanCallBond /\ bond.stage = "Coupons"
    /\ \E notional \in Notionals, tera \in Teras :
          Constructs("Bond", [notional |-> notional, tera |-> tera],
                     Bond(bond, notional, tera), Bond(bond, notional, tera).obj)

NextBond == NewCoupon \/ NewCoupons \/ NewBond

SpecBond == InitBond /\ [][NextBond]_vars

\* the residual of some coupon differs from the sum of its own and all later
\* amortizations by more than the tolerance of validate_residuals, in either
\* direction
Differs(calculated, residual) ==
    \/ Round1(residual)[1] = 0
    \/ RLt(<<1, 100>>, RSub(RDiv(Round1(calculated), Round1(residual)), ROne))
    \/ RLt(RSub(RDiv(Round1(calculated), Round1(residual)), ROne), <<-1, 100>>)

ResidualsInconsistent(cs) ==
    \E i \in DOMAIN cs : Differs(SumAmortization(cs, i), cs[i].residual)

\* C7: Bond(coupons, ...) on a Coupons object built with the default
\* check_residuals, from a list in which some coupon's residual differs from
\* the sum of its own and all later amortizations, raises a validation error
\* and no Bond results.
C7_InconsistentResidualsRejected ==
    last.op = "Bond" /\ ~last.pre.check_residuals
        /\ ResidualsInconsistent(last.pre.coupons) =>
        last.err = "ValueError" /\ bond.stage # "Bond"

(***************************************************************************)
(* Further properties of the curve                                         *)
(***************************************************************************)
\* the discount factor from the curve date to d by the Rate of the point cp
AnchorDf(c, cp, d) == DfOf(get_discount_factor(PointRate(cp), c.curve_date, d))

\* the array ret holds, for each date of dates_t outside the range of the
\* points of c, the discount factor by the Rate of the nearest boundary point
ClampedOutside(c, dates_t, ret) ==
    \A i \in DOMAIN dates_t :
        /\ dates_t[i] < c.curve_points[1].date
              => ret[i] = AnchorDf(c, c.curve_points[1], dates_t[i])
        /\ dates_t[i] > c.curve_points[Len(c.curve_points)].date
              => ret[i] = AnchorDf(c, c.curve_points[Len(c.curve_points)], dates_t[i])

\* C11: on a curve with the default settings, when get_dfs computes its
\* result, the element for a date before the first point or after the last
\* point is the discount factor to that date by the Rate of the nearest
\* boundary point, not the interpolant's value beyond the points.
C11_ClampsOutsideAnchors ==
    (/\ last.op = "get_dfs" /\ last.err = ""
     /\ Len(last.pre.curve_points) >= 2
     /\ last.pre._df_interpolator.extrapolate
     /\ <<last.pre._str_dates_rates, last.arg>> \notin DOMAIN last.pre._cashed_dfs)
        => ClampedOutside(last.pre, last.arg, last.ret)

(***************************************************************************)
(* Bond.get_irr_from_amount / CLBond.get_irr_from_amount: the correction   *)
(* loop that follows the solver.  Rate values are whole numbers of steps   *)
(* of 0.000001 counted from the rounded rate the solver returned.  The     *)
(* amount of the bond at a rate is a rounded, decreasing function of the   *)
(* rate: a staircase [width, offset, jump] that falls by `jump` every      *)
(* `width` steps.  The frame of the call is kept in zs.                    *)
(***************************************************************************)
MaxCorrections == 30      \* if counter == 30: raise ValueError

\* floor(a / b) for b > 0
FloorDiv(a, b) == IF a >= 0 THEN a \div b ELSE -((-a + b - 1) \div b)

\* _get_amount_value_rate_value at the rate j steps from the rounded rate
_get_amount_value_rate_value(profile, j) ==
    profile.jump * FloorDiv(profile.offset - j, profile.width)

\* direction = 1 if newton_result > amount else -1
Direction(newton_result, amount) == IF newton_result > amount THEN 1 ELSE -1

\* abs(newton_result_i - amount) > abs(newton_result - amount)
FartherThan(newton_result_i, newton_result, amount) ==
    Abs(newton_result_i - amount) > Abs(newton_result - amount)

\* the counter never taken to be exhausted
CounterUnchecked(counter) == FALSE

\* if counter == 30
CounterExhausted(counter) == counter = MaxCorrections

\* inputs of the call
AmountProfiles ==
    {[width |-> w, offset |-> o, jump |-> 2] : w \in {1, 2, 12, 35}, o \in {0, 1, 34}}
Amounts == -5..5

InitIrr ==
    /\ zs = ZsIdle
    /\ last = [op |-> "__init__", arg |-> <<>>, err |-> "", ret |-> <<>>,
               pre |-> NoObject, n |-> 0,
               prev |-> [op |-> "", arg |-> <<>>, err |-> "", pre |-> NoObject]]
    /\ curve = NoObject /\ calendar = NoObject /\ rate = NoObject /\ bond = NoObject /\ memo = NoObject

\* the call ends: with the Rate of rate_value, or with the error err
IrrEnds(f, err) ==
    /\ zs' = [f EXCEPT !.pc = IF err = "" THEN "returned" ELSE "raised"]
    /\ last' = Call("get_irr_from_amount", [amount |-> f.amount, profile |-> f.profile],
                    err, IF err = "" THEN <<f.rate_value>> ELSE <<>>, NoObject)
    /\ UNCHANGED <<curve, calendar, rate, bond, memo>>

\* the call goes on in the loop with the frame f
IrrGoesOn(f) ==
    /\ zs' = f
    /\ UNCHANGED <<curve, calendar, rate, bond, last, memo>>

\* the frame after the solver: rate_value is the rounded rate (step 0),
\* newton_result the amount there
FrameAfterNewton(profile, amount, newton_result) ==
    [pc |-> "loop", entry |-> <<>>, iter |-> 0,
     profile |-> profile, amount |-> amount,
     rate_value |-> 0, newton_result |-> newton_result, counter |-> 0,
     direction |-> Direction(newton_result, amount),
     start_result |-> newton_result, trail |-> <<>>]

\* get_irr_from_amount up to the loop: the solver raises, or returns a rate
\* that is rounded; the loop is entered when the amount there is not the
\* amount asked for
Entered(f, converged) ==
    IF ~converged THEN IrrEnds(f, "RuntimeError")
    ELSE IF f.newton_result # f.amount THEN IrrGoesOn(f)
    ELSE IrrEnds(f, "")

IrrStart ==
    /\ zs.pc = "idle"
    /\ \E profile \in AmountProfiles, amount \in Amounts, converged \in BOOLEAN :
          Entered(FrameAfterNewton(profile, amount,
                                   _get_amount_value_rate_value(profile, 0)),
                  converged)

\* one pass of the loop body, g the frame with rate_value stepped and the
\* candidate recorded, newton_result_i the amount at the candidate
Corrected(g, newton_result_i) ==
    IF Direction(newton_result_i, g.amount) # g.direction
    THEN IrrEnds(IF FartherThan(newton_result_i, g.newton_result, g.amount)
                 THEN [g EXCEPT !.rate_value = @ - g.direction] ELSE g, "")
    ELSE IF CounterExhausted(g.counter + 1)
         THEN IrrEnds([g EXCEPT !.newton_result = newton_result_i, !.counter = @ + 1],
                      "ValueError")
    ELSE IrrGoesOn([g EXCEPT !.newton_result = newton_result_i, !.counter = @ + 1])

\* rate_value += 0.000001 * direction and the amount there
Stepped(f, rate_value) ==
    Corrected([f EXCEPT !.rate_value = rate_value,
                        !.trail = Append(@, [rate_value |-> rate_value,
                                             result |-> _get_amount_value_rate_value(
                                                            f.profile, rate_value)])],
              _get_amount_value_rate_value(f.profile, rate_value))

IrrStep ==
    /\ zs.pc = "loop"
    /\ Stepped(zs, zs.rate_value + zs.direction)

NextIrr == IrrStart \/ IrrStep

SpecIrr == InitIrr /\ [][NextIrr]_vars

(***************************************************************************)
(* Properties of the correction loop                                       *)
(***************************************************************************)
InCorrection == zs.pc \in {"loop", "returned", "raised"} /\ last.err # "RuntimeError"

\* the candidate before the i-th one: the rounded rate of the solver for i = 1
PrevCandidate(f, i) ==
    IF i = 1 THEN [rate_value |-> 0, result |-> f.start_result] ELSE f.trail[i - 1]

\* the i-th candidate is on the other side of the amount, as the loop tests it
Flipped(f, i) == Direction(f.trail[i].result, f.amount) # f.direction

\* C12: the correction loop takes at most 30 steps, each of one step of
\* 0.000001 from the candidate before; when none of the 30 candidates flips
\* the side of the error the call raises ValueError and returns no rate,
\* and it raises ValueError in no other case.
C12_AtMostThirtySteps ==
    InCorrection =>
        /\ Len(zs.trail) <= MaxCorrections
        /\ \A i \in DOMAIN zs.trail :
              Abs(zs.trail[i].rate_value - PrevCandidate(zs, i).rate_value) = 1
        /\ (Len(zs.trail) = MaxCorrections /\ \A i \in DOMAIN zs.trail : ~Flipped(zs, i))
              => (zs.pc = "raised" /\ last.err = "ValueError" /\ last.ret = <<>>)
        /\ zs.pc = "raised"
              => (Len(zs.trail) = MaxCorrections /\ \A i \in DOMAIN zs.trail : ~Flipped(zs, i))

C12_Witness ==
    /\ InCorrection /\ zs.pc = "raised" /\ last.op = "get_irr_from_amount"
    /\ last.err = "ValueError" /\ Len(zs.trail) = MaxCorrections

\* the sign of the amount error
Sign(x) == IF x > 0 THEN 1 ELSE IF x < 0 THEN -1 ELSE 0

\* the sign of the error of the i-th candidate differs from the sign of the
\* error at the rounded rate of the solver
SignDiffers(f, i) == Sign(f.trail[i].result - f.amount) # Sign(f.start_result - f.amount)

\* C13: the loop moves the rate in one direction only, up when the amount at
\* the rounded rate is above the target and down when it is below; it stops
\* at the first candidate whose error sign differs, and returns that
\* candidate unless its absolute error is strictly larger than the one of
\* the candidate before, in which case it returns the candidate before.
C13_StopsAtFirstSignChange ==
    InCorrection =>
        /\ zs.direction = Sign(zs.start_result - zs.amount) \/ zs.trail = <<>>
        /\ \A i \in DOMAIN zs.trail : zs.trail[i].rate_value = i * zs.direction
        /\ \A i \in DOMAIN zs.trail : SignDiffers(zs, i) => i = Len(zs.trail)
        /\ (zs.trail # <<>> /\ SignDiffers(zs, Len(zs.trail))) =>
              /\ zs.pc = "returned"
              /\ last.ret = <<IF FartherThan(zs.trail[Len(zs.trail)].result,
                                               PrevCandidate(zs, Len(zs.trail)).result,
                                               zs.amount)
                                THEN PrevCandidate(zs, Len(zs.trail)).rate_value
                                ELSE zs.trail[Len(zs.trail)].rate_value>>

(***************************************************************************)
(* Calendar.combine / Calendar.__add__.  The lists of the calendars are    *)
(* objects of a heap, so that a list shared by two calendars, or extended  *)
(* in place, shows: a calendar holds the places of its two lists in heap.  *)
(* The state is [heap, self, other, combined], combined being NoObject     *)
(* until combine has returned.                                             *)
(***************************************************************************)
MaxCombineCalls == 3      \* calls made on the calendars after construction

\* the calendar `who` with its lists read from the heap
CalendarOf(st, who) ==
    Calendar(st.heap[st[who].holiday_rules], st.heap[st[who].custom_holidays])

\* combined_rules extended in place into the rules of self
CombineInPlace(st) ==
    [st EXCEPT !.heap = Append([@ EXCEPT ![st.self.holiday_rules] =
                                     @ \o st.heap[st.other.holiday_rules]], <<>>),
               !.combined = Calendar(st.self.holiday_rules, Len(st.heap) + 1)]

\* Calendar.combine: combined_rules is a new list, custom_holidays of the
\* new Calendar the list of its default_factory
combine(st) ==
    [st EXCEPT !.heap = Append(Append(@, st.heap[st.self.holiday_rules]
                                            \o st.heap[st.other.holiday_rules]), <<>>),
               !.combined = Calendar(Len(st.heap) + 1, Len(st.heap) + 2)]

\* self.custom_holidays += custom_holidays extends the list in place;
\* _fix_custom_holidays binds custom_holidays to a new sorted list
FixedInHeap(st, who, heap) ==
    [st EXCEPT !.heap = Append(heap, SortedSet(SeqRange(heap[st[who].custom_holidays]))),
               ![who] = [@ EXCEPT !.custom_holidays = Len(heap) + 1]]

\* Calendar.add_custom_holidays
add_custom_holidays(st, who, custom_holidays) ==
    FixedInHeap(st, who, [st.heap EXCEPT ![st[who].custom_holidays] = @ \o custom_holidays])

\* Calendar.delete_custom_holidays: custom_holidays.clear()
ClearedInHeap(st, who) == [st EXCEPT !.heap[st[who].custom_holidays] = <<>>]

\* inputs
RuleLists ==
    {<<MonthDayRule(1, 5, FALSE)>>,
     <<OrdinalWeekWeekdayRule(2, 0, 1), MonthDayRule(1, 3, TRUE)>>}
CustomLists == {<<>>, <<MkDate(2024, 1, 9)>>}
AddedLists == {<<MkDate(2024, 1, 8)>>, <<MkDate(2024, 1, 9), MkDate(2024, 1, 5)>>}

\* two calendars, each built from its own lists; other may be self (cal + cal)
TwoCalendars(r1, c1, r2, c2, same) ==
    [heap |-> <<r1, c1, r2, c2>>, self |-> Calendar(1, 2),
     other |-> IF same THEN Calendar(1, 2) ELSE Calendar(3, 4), combined |-> NoObject]

InitCombine ==
    /\ calendar \in {TwoCalendars(r1, c1, r2, c2, same) :
                        r1 \in RuleLists, c1 \in CustomLists, r2 \in RuleLists,
                        c2 \in CustomLists, same \in BOOLEAN}
    /\ last = [op |-> "__post_init__", arg |-> <<>>, err |-> "", ret |-> <<>>,
               pre |-> calendar, n |-> 0,
               prev |-> [op |-> "", arg |-> <<>>, err |-> "", pre |-> calendar]]
    /\ zs = ZsIdle
    /\ curve = NoObject /\ rate = NoObject /\ bond = NoObject /\ memo = NoObject

CanCallCombine == last.n < MaxCombineCalls

Calendars == IF calendar.combined = NoObject THEN {"self", "other"}
             ELSE {"self", "other", "combined"}

Combine ==
    /\ CanCallCombine
    /\ calendar.combined = NoObject
    /\ Becomes("combine", [who |-> "self", other |-> "other"], combine(calendar))

CombineAddCustomHolidays ==
    /\ CanCallCombine
    /\ \E who \in Calendars, custom_holidays \in AddedLists :
          Becomes("add_custom_holidays", [who |-> who, custom_holidays |-> custom_holidays],
                  add_custom_holidays(calendar, who, custom_holidays))

CombineDeleteCustomHolidays ==
    /\ CanCallCombine
    /\ \E who \in Calendars :
          Becomes("delete_custom_holidays", [who |-> who], ClearedInHeap(calendar, who))

NextCombine == Combine \/ CombineAddCustomHolidays \/ CombineDeleteCustomHolidays

SpecCombine == InitCombine /\ [][NextCombine]_vars

\* the calendar `who` is as it was before the last call
Untouched(who) == CalendarOf(calendar, who) = CalendarOf(last.pre, who)

C15_MutatorsEmptyCache ==
    (/\ last.op \in {"add_point", "delete_point", "parallel_shift"}
     /\ last.err = "" /\ zs.pc = "idle")
        => DOMAIN curve._cashed_dfs = {}

\* the derived arrays of the curve
DerivedArrays(c) ==
    <<c.dates, c.rates_values, c.dfs, c._str_dates_rates, c._df_interpolator>>

\* C20: when add_point (a date before the curve date) or delete_point (no
\* point would be left) raises, the point list, the derived arrays and the
\* values of get_dfs are those of before the call.
C20_FailedMutationLeavesCurve ==
    (/\ last.err = "ValueError" /\ zs.pc = "idle"
     /\ \/ last.op = "add_point" /\ last.arg.date < last.pre.curve_date
        \/ last.op = "delete_point") =>
        /\ curve.curve_points = last.pre.curve_points
        /\ DerivedArrays(curve) = DerivedArrays(last.pre)
        /\ \A dates_t \in QueryDates :
              get_dfs(curve, dates_t).ret = get_dfs(last.pre, dates_t).ret

(***************************************************************************)
(* get_day_count and get_time_fraction as they are called                  *)
(* (dates/date_counts.py): an argument is one date, [one |-> d], or a list *)
(* of dates, [many |-> <<d, ...>>]; the functions of the router are        *)
(* multimethods, found by the kinds of the two arguments; results are kept *)
(* in _day_count_cache under the text of the arguments.  The counts of a   *)
(* list are numpy numbers, written here as the integers they equal.        *)
(***************************************************************************)
MaxDayCountCalls == 2     \* calls made to the module

OneDate(d) == [one |-> d]
ManyDates(ds) == [many |-> ds]
IsMany(x) == "many" \in DOMAIN x
KindOf(x) == IF IsMany(x) THEN "Iterable" ELSE "date"

\* the signatures each multimethod is registered with
Registered(dcc) ==
    IF dcc = "Actual"
    THEN {<<"date", "date">>, <<"date", "Iterable">>, <<"Iterable", "Iterable">>,
          <<"Iterable", "date">>}
    ELSE {<<"date", "date">>, <<"Iterable", "Iterable">>}

Counted(days) == [err |-> "", ret |-> <<days>>]
Failed(err) == [err |-> err, ret |-> <<>>]

\* the method found for two lists: the lengths are compared, then every
\* pair is counted
CountPairs(start_date, end_date, dcc) ==
    IF Len(start_date) # Len(end_date) THEN Failed("ValueError")
    ELSE Counted([i \in DOMAIN start_date |->
                     get_day_count(start_date[i], end_date[i], dcc)])

\* _day_count_router[day_count_convention](start_date, end_date)
Dispatched(start_date, end_date, dcc) ==
    IF dcc \notin RoutedDayCounts THEN Failed("KeyError")
    ELSE IF <<KindOf(start_date), KindOf(end_date)>> \notin Registered(dcc)
    THEN Failed("DispatchError")
    ELSE IF IsMany(start_date) /\ IsMany(end_date)
    THEN CountPairs(start_date.many, end_date.many, dcc)
    ELSE IF IsMany(end_date)
    THEN Counted([i \in DOMAIN end_date.many |->
                     _get_day_count_actual(start_date.one, end_date.many[i])])
    ELSE IF IsMany(start_date)
    THEN Counted([i \in DOMAIN start_date.many |->
                     _get_day_count_actual(start_date.many[i], end_date.one)])
    ELSE Counted(get_day_count(start_date.one, end_date.one, dcc))

\* the outcome r of the router stored under hashable_input when it is a count
Stored(cache, hashable_input, r) ==
    [err |-> r.err, ret |-> r.ret,
     cache |-> IF r.err # "" THEN cache
               ELSE [k \in DOMAIN cache \cup {hashable_input} |->
                        IF k = hashable_input THEN r.ret[1] ELSE cache[k]]]

\* get_day_count with its cache
CachedDayCount(cache, start_date, end_date, dcc) ==
    IF <<start_date, end_date, dcc>> \in DOMAIN cache
    THEN [err |-> "", ret |-> <<cache[<<start_date, end_date, dcc>>]>>, cache |-> cache]
    ELSE Stored(cache, <<start_date, end_date, dcc>>,
                Dispatched(start_date, end_date, dcc))

\* day_count / base_convention, of a number or of an array
Fraction(many, day_count, base_convention) ==
    IF many THEN [i \in DOMAIN day_count |-> RNorm(day_count[i], base_convention)]
    ELSE RNorm(day_count, base_convention)

\* get_time_fraction after get_day_count has returned r
DividedByBase(r, many, base_convention) ==
    IF r.err # "" THEN r
    ELSE [r EXCEPT !.ret = <<Fraction(many, r.ret[1], base_convention)>>]

\* get_time_fraction with the cache of get_day_count
CachedTimeFraction(cache, start_date, end_date, dcc, base_convention) ==
    DividedByBase(CachedDayCount(cache, start_date, end_date, dcc),
                  IsMany(start_date) \/ IsMany(end_date), base_convention)

\* inputs
DayCountDates == {MkDate(2024, 1, 30), MkDate(2024, 1, 31), MkDate(2024, 2, 29)}
DayCountLists ==
    {<<MkDate(2024, 1, 30), MkDate(2024, 1, 31)>>,
     <<MkDate(2024, 2, 29), MkDate(2024, 3, 31)>>,
     <<MkDate(2024, 1, 31)>>}
DayCountArgs ==
    {OneDate(d) : d \in DayCountDates} \cup {ManyDates(ds) : ds \in DayCountLists}
Bases == {360, 365}

InitDayCount ==
    /\ memo = [k \in {} |-> 0]
    /\ last = [op |-> "import", arg |-> <<>>, err |-> "", ret |-> <<>>,
               pre |-> memo, n |-> 0,
               prev |-> [op |-> "", arg |-> <<>>, err |-> "", pre |-> memo]]
    /\ zs = ZsIdle
    /\ curve = NoObject /\ calendar = NoObject /\ rate = NoObject /\ bond = NoObject

CanCallDayCount == last.n < MaxDayCountCalls

\* the call op(arg) ends with the outcome r
DayCountReturns(op, arg, r) ==
    /\ memo' = r.cache
    /\ last' = Call(op, arg, r.err, r.ret, memo)
    /\ UNCHANGED <<curve, calendar, rate, bond, zs>>

GetDayCount ==
    /\ CanCallDayCount
    /\ \E start_date \in DayCountArgs, end_date \in DayCountArgs,
          dcc \in DayCountConvention :
          DayCountReturns("get_day_count",
                          [start_date |-> start_date, end_date |-> end_date,
                           day_count_convention |-> dcc],
                          CachedDayCount(memo, start_date, end_date, dcc))

GetTimeFraction ==
    /\ CanCallDayCount
    /\ \E start_date \in DayCountArgs, end_date \in DayCountArgs,
          dcc \in DayCountConvention, base_convention \in Bases :
          DayCountReturns("get_time_fraction",
                          [start_date |-> start_date, end_date |-> end_date,
                           day_count_convention |-> dcc,
                           base_convention |-> base_convention],
                          CachedTimeFraction(memo, start_date, end_date, dcc,
                                             base_convention))

NextDayCount == GetDayCount \/ GetTimeFraction

SpecDayCount == InitDayCount /\ [][NextDayCount]_vars

(***************************************************************************)
(* Properties of the day counts                                            *)
(***************************************************************************)
\* the last call is get_day_count on two dates
CountedTwoDates ==
    /\ last.op = "get_day_count"
    /\ ~IsMany(last.arg.start_date) /\ ~IsMany(last.arg.end_date)

\* 360*(y2-y1) + 30*(m2-m1) + (min(d2,30) - min(d1,30))
Days30EStated(a, b) ==
    360 * (b.year - a.year) + 30 * (b.month - a.month) + (Min(b.day, 30) - Min(a.day, 30))

\* C16: for the 30E/360 convention the count between two dates is
\* 360*(y2-y1) + 30*(m2-m1) + (min(d2,30) - min(d1,30)), the day of the end
\* date clamped independently of the day of the start date.
C16_Days30EClampsIndependently ==
    (CountedTwoDates /\ last.arg.day_count_convention = "Days30E") =>
        /\ last.err = ""
        /\ last.ret = <<Days30EStated(DateParts(last.arg.start_date.one),
                                      DateParts(last.arg.end_date.one))>>

\* the i-th start date of a batch call
StartAt(arg, i) == IF IsMany(arg.start_date) THEN arg.start_date.many[i]
                   ELSE arg.start_date.one

\* C17: for every convention with a day count, batch get_day_count returns
\* at position i the count of the scalar call on the i-th pair, for two
\* lists of equal length and for one start date against a list of end dates.
C17_BatchEqualsScalar ==
    (/\ last.op = "get_day_count"
     /\ last.arg.day_count_convention \in RoutedDayCounts
     /\ IsMany(last.arg.end_date)
     /\ IsMany(last.arg.start_date)
           => Len(last.arg.start_date.many) = Len(last.arg.end_date.many)) =>
        /\ last.err = ""
        /\ \A i \in DOMAIN last.arg.end_date.many :
              last.ret[1][i] = get_day_count(StartAt(last.arg, i),
                                             last.arg.end_date.many[i],
                                             last.arg.day_count_convention)

\* C18: every tag of DayCountConvention has a day count: for two dates with
\* start <= end, get_day_count and get_time_fraction return a value.
C18_EveryTagCounts ==
    (/\ last.op \in {"get_day_count", "get_time_fraction"}
     /\ ~IsMany(last.arg.start_date) /\ ~IsMany(last.arg.end_date)
     /\ last.arg.start_date.one <= last.arg.end_date.one) =>
        (last.err = "" /\ last.ret # <<>>)

(***************************************************************************)
(* Calendar.get_holidays, and calendars with a rule that has no date in    *)
(* some year.  An entry of the returned list is <<d>> for the date d and   *)
(* <<>> for None.                                                          *)
(***************************************************************************)
\* customs + rule_holidays as a set
YearHolidays(cal, year) ==
    {<<cal.custom_holidays[i]>> : i \in {j \in DOMAIN cal.custom_holidays :
                                            YearOf(cal.custom_holidays[j]) = year}}
        \cup {get_date(cal.holiday_rules[i], year) : i \in DOMAIN cal.holiday_rules}

DatesOf(sorted) == [i \in DOMAIN sorted |-> <<sorted[i]>>]

\* year_holidays.sort(): None is ordered against no date
SortedYear(year_holidays) ==
    IF <<>> \in year_holidays /\ Cardinality(year_holidays) >= 2
    THEN [err |-> "TypeError", ret |-> <<>>]
    ELSE IF <<>> \in year_holidays THEN [err |-> "", ret |-> <<<<>>>>]
    ELSE [err |-> "", ret |-> DatesOf(SortedSet({e[1] : e \in year_holidays}))]

\* Calendar.get_holidays
get_holidays(cal, year) == SortedYear(YearHolidays(cal, year))

\* inputs: the rules of 18 and 19 September with their sandwich rule (it has
\* a date in 2024, none in 2025), and the sandwich rule alone
HolidayCalendars ==
    {Calendar(<<MonthDayRule(9, 18, FALSE), MonthDayRule(9, 19, FALSE),
                ConsecutiveHolidaySandwichRule(MonthDayRule(9, 18, FALSE),
                                               MonthDayRule(9, 19, FALSE))>>, <<>>),
     Calendar(<<ConsecutiveHolidaySandwichRule(MonthDayRule(9, 18, FALSE),
                                               MonthDayRule(9, 19, FALSE))>>, <<>>)}
HolidayYears == {2024, 2025}
HolidayDates == {MkDate(2024, 9, 20), MkDate(2025, 9, 17), MkDate(2025, 9, 19)}

InitHolidays ==
    /\ calendar \in HolidayCalendars
    /\ last = [op |-> "__post_init__", arg |-> <<>>, err |-> "", ret |-> <<>>,
               pre |-> calendar, n |-> 0,
               prev |-> [op |-> "", arg |-> <<>>, err |-> "", pre |-> calendar]]
    /\ zs = ZsIdle /\ memo = NoObject
    /\ curve = NoObject /\ rate = NoObject /\ bond = NoObject

\* get_holidays(year) ends with the outcome r
HolidaysReturn(year, r) ==
    /\ last' = Call("get_holidays", year, r.err, r.ret, calendar)
    /\ UNCHANGED <<calendar, curve, rate, bond, zs, memo>>

GetHolidays ==
    /\ CanCallCalendar
    /\ \E year \in HolidayYears : HolidaysReturn(year, get_holidays(calendar, year))

IsHolidayInYear ==
    /\ CanCallCalendar
    /\ \E d \in HolidayDates : Answers("is_holiday", d, is_holiday(calendar, d))

NextHolidays ==
    \/ GetHolidays
    \/ IsHolidayInYear
    \/ AddCustomHoliday
    \/ DeleteCustomHolidays

SpecHolidays == InitHolidays /\ [][NextHolidays]_vars

\* some rule of the calendar has no date in the year
HasAbsentRule(cal, year) ==
    \E i \in DOMAIN cal.holiday_rules : get_date(cal.holiday_rules[i], year) = <<>>

\* C19: with a rule that has no holiday in the year, is_holiday and
\* get_holidays complete without error, and get_holidays returns dates only,
\* in ascending order, with no entry for the absent rule.
C19_AbsentRuleIsLeftOut ==
    /\ (last.op = "is_holiday" /\ HasAbsentRule(last.pre, YearOf(last.arg)))
          => last.err = ""
    /\ (last.op = "get_holidays" /\ HasAbsentRule(last.pre, last.arg)) =>
          /\ last.err = ""
          /\ \A i \in DOMAIN last.ret : last.ret[i] # <<>>
          /\ \A i \in DOMAIN last.ret : \A j \in DOMAIN last.ret :
                i < j => last.ret[i][1] < last.ret[j][1]

\* C21: every point of the curve has a date strictly after the curve date,
\* after construction and after every add_point: a point dated on or before
\* the curve date is rejected.
C21_PointsAfterCurveDate ==
    (zs.pc = "idle" /\ last.op \in {"__post_init__", "add_point"}) =>
        \A i \in DOMAIN curve.curve_points : curve.curve_points[i].date > curve.curve_date

(***************************************************************************)
(* Further properties of Coupon, Coupons and Bond                          *)
(***************************************************************************)
\* the coupons held at present: of the list, of the Coupons object, of the Bond
CouponsHeld ==
    IF bond.stage = "Bond" THEN bond.coupons.coupons ELSE bond.coupons

\* residual > 0, residual >= amortization, start_date < end_date and
\* flow = amortization + interest
CouponIsValid(c) ==
    /\ RLt(RZero, c.residual)
    /\ RLe(c.amortization, c.residual)
    /\ c.start_date < c.end_date
    /\ c.flow = RAdd(c.amortization, c.interest)

C30_FlowsArrayIsCurrent ==
    (last.op = "Bond" /\ last.err = "" /\ bond.stage = "Bond") =>
        bond.coupons.flows = [i \in DOMAIN bond.coupons.coupons |->
                                 bond.coupons.coupons[i].flow]

(***************************************************************************)
(* get_irr (fixedIncome/utils.py) and Bond.get_irr_from_present_value.     *)
(* Amounts and rates are exact rationals, terms whole years, so that the   *)
(* Newton step is computed as the code computes it.  The frame of the call *)
(* is kept in zs.  scipy's newton, which get_irr_from_present_value calls, *)
(* is followed by its contract: it evaluates the objective, stops when it  *)
(* has converged and raises RuntimeError after maxiter iterations.         *)
(***************************************************************************)
NewtonMaxIter == 100      \* newton(objective_function, ..., maxiter=100)

RAbs(p) == <<Abs(p[1]), p[2]>>

RECURSIVE RPow(_, _)
RPow(p, e) == IF e = 0 THEN ROne ELSE RMul(p, RPow(p, e - 1))

\* the flows dated after the valuation date, as <<term, cash_flow>>, term
\* being (dt - valuation_date).days / base
RECURSIVE FlowsAfter(_, _, _, _)
FlowsAfter(cash_flows, flow_dates, valuation_date, base) ==
    IF cash_flows = <<>> THEN <<>>
    ELSE IF flow_dates[1] > valuation_date
    THEN <<[term |-> (flow_dates[1] - valuation_date) \div base,
            cash_flow |-> cash_flows[1]]>>
            \o FlowsAfter(Tail(cash_flows), Tail(flow_dates), valuation_date, base)
    ELSE FlowsAfter(Tail(cash_flows), Tail(flow_dates), valuation_date, base)

\* pvs.sum() for df_no_exp
RECURSIVE SumPvs(_, _)
SumPvs(flows, df_no_exp) ==
    IF flows = <<>> THEN RZero
    ELSE RAdd(RMul(flows[1].cash_flow, RPow(df_no_exp, flows[1].term)),
              SumPvs(Tail(flows), df_no_exp))

\* np.dot(terms, pvs * df_no_exp)
RECURSIVE DotTerms(_, _)
DotTerms(flows, df_no_exp) ==
    IF flows = <<>> THEN RZero
    ELSE RAdd(RMul(<<flows[1].term, 1>>,
                   RMul(flows[1].cash_flow, RPow(df_no_exp, flows[1].term + 1))),
              DotTerms(Tail(flows), df_no_exp))

\* npv = pvs.sum() - pv at the rate irr
Npv(flows, pv, irr) == RSub(SumPvs(flows, RDiv(ROne, RAdd(ROne, irr))), pv)

\* irr -= npv / delta
NewtonStep(flows, irr, npv) ==
    RSub(irr, RDiv(npv, RNeg(DotTerms(flows, RDiv(ROne, RAdd(ROne, irr))))))

\* the test that always passes
ConvergedAlways(npv, target_error) == TRUE

\* abs(npv) < target_error
Converged(npv, target_error) == RLt(RAbs(npv), target_error)

\* inputs of get_irr: a flow a year after the valuation date, the same with a
\* flow before it, and a flow before it alone
ValuationDate == MkDate(2024, 3, 1)
FlowSchedules ==
    {[cash_flows |-> <<<<100, 1>>>>, dates |-> <<ValuationDate + 365>>],
     [cash_flows |-> <<<<5, 1>>, <<100, 1>>>>,
      dates |-> <<ValuationDate - 10, ValuationDate + 365>>],
     [cash_flows |-> <<<<5, 1>>>>, dates |-> <<ValuationDate - 10>>]}
PresentValues  == {<<80, 1>>, <<100, 1>>, <<120, 1>>}
InitialGuesses == {<<0, 1>>, <<1, 4>>}
TargetErrors   == {<<25, 1>>, <<1, 1>>, <<1, 100>>}
IterationCaps  == {1, 2, 3}

InitNewton ==
    /\ zs = ZsIdle /\ memo = NoObject
    /\ last = [op |-> "import", arg |-> <<>>, err |-> "", ret |-> <<>>,
               pre |-> NoObject, n |-> 0,
               prev |-> [op |-> "", arg |-> <<>>, err |-> "", pre |-> NoObject]]
    /\ curve = NoObject /\ calendar = NoObject /\ rate = NoObject /\ bond = NoObject

\* the solver call of the frame f ends: with ret, or with the error err
SolverEnds(op, f, err, ret) ==
    /\ zs' = ZsIdle
    /\ last' = Call(op, f.arg, err, ret, f)
    /\ UNCHANGED <<curve, calendar, rate, bond, memo>>

SolverGoesOn(f) ==
    /\ zs' = f
    /\ UNCHANGED <<curve, calendar, rate, bond, memo, last>>

\* get_irr up to the loop: the flows after the valuation date are unpacked
\* (ValueError when there is none), irr = initial_guess
IrrEntered(arg, flows) ==
    IF flows = <<>>
    THEN SolverEnds("get_irr", [arg |-> arg], "ValueError", <<>>)
    ELSE SolverGoesOn([pc |-> "get_irr", entry |-> <<>>, iter |-> 0, arg |-> arg,
                       flows |-> flows, irr |-> arg.initial_guess, checked |-> <<>>])

GetIrrStart ==
    /\ zs.pc = "idle" /\ last.n = 0
    /\ \E s \in FlowSchedules, pv \in PresentValues, g \in InitialGuesses,
          e \in TargetErrors, m \in IterationCaps :
          IrrEntered([cash_flows |-> s.cash_flows, dates |-> s.dates,
                      valuation_date |-> ValuationDate, pv |-> pv,
                      initial_guess |-> g, target_error |-> e,
                      max_iterations |-> m, base |-> 365],
                     FlowsAfter(s.cash_flows, s.dates, ValuationDate, 365))

\* one pass of the loop of get_irr, g the frame with this pass counted and
\* its npv recorded; the pass that was the last ends in RuntimeError
IrrIterated(g, npv) ==
    IF Converged(npv, g.arg.target_error)
    THEN SolverEnds("get_irr", g, "", <<g.irr>>)
    ELSE IF g.iter = g.arg.max_iterations
    THEN SolverEnds("get_irr", [g EXCEPT !.irr = NewtonStep(g.flows, g.irr, npv)],
                    "RuntimeError", <<>>)
    ELSE SolverGoesOn([g EXCEPT !.irr = NewtonStep(g.flows, g.irr, npv)])

GetIrrStep ==
    /\ zs.pc = "get_irr"
    /\ IrrIterated([zs EXCEPT !.iter = @ + 1,
                              !.checked = Append(@, Npv(zs.flows, zs.arg.pv, zs.irr))],
                   Npv(zs.flows, zs.arg.pv, zs.irr))

\* Bond.get_irr_from_present_value up to the call of the solver
PvIrrStart ==
    /\ zs.pc = "idle" /\ last.n = 0
    /\ \E pv \in PresentValues :
          SolverGoesOn([pc |-> "newton_pv", entry |-> <<>>, iter |-> 0,
                        arg |-> [present_value |-> pv, maxiter |-> NewtonMaxIter],
                        converged |-> FALSE])

\* one iteration of the solver: it has converged with it or not; after the
\* last one that has not, the solver raises
PvIrrIterated(g) ==
    IF g.converged THEN SolverEnds("get_irr_from_present_value", g, "", <<g.iter>>)
    ELSE IF g.iter = g.arg.maxiter
    THEN SolverEnds("get_irr_from_present_value", g, "RuntimeError", <<>>)
    ELSE SolverGoesOn(g)

PvIrrStep ==
    /\ zs.pc = "newton_pv"
    /\ \E converged \in BOOLEAN :
          PvIrrIterated([zs EXCEPT !.iter = @ + 1, !.converged = converged])

NextNewton == GetIrrStart \/ GetIrrStep \/ PvIrrStart \/ PvIrrStep

SpecNewton == InitNewton /\ [][NextNewton]_vars

\* every npv the loop has tested before its last test was not below the
\* target error
NoneConvergedBefore(f, k) ==
    \A i \in 1..k : ~RLt(RAbs(f.checked[i]), f.arg.target_error)

VisitedExactMatch(f) ==
    \/ f.start_result = f.amount
    \/ \E i \in DOMAIN f.trail : f.trail[i].result = f.amount

\* C24: in get_irr_from_amount, when the rounded rate of the solver or a
\* rate visited by the correction loop gives the target amount exactly, the
\* call returns a rate whose amount is the target exactly, from whichever
\* side the loop comes: it returns no neighbour that does not match and does
\* not raise after it has visited an exact match.
C24_ExactMatchIsReturned ==
    (InCorrection /\ zs.pc \in {"returned", "raised"} /\ VisitedExactMatch(zs)) =>
        /\ zs.pc = "returned" /\ last.err = ""
        /\ _get_amount_value_rate_value(zs.profile, last.ret[1]) = zs.amount

(***************************************************************************)
(* TF_ActualActualISDA.get_day_count_factor (dates/time_fractions.py), its *)
(* while loop followed pass by pass; the frame of the call is kept in zs.  *)
(***************************************************************************)
\* inputs: periods within a year, to its 31 December, from a 31 December,
\* and past the end of the year of the start date
ActActStarts ==
    {MkDate(2024, 6, 30), MkDate(2024, 12, 30), MkDate(2024, 12, 31), MkDate(2025, 1, 1),
     MkDate(2025, 7, 1), MkDate(2025, 12, 1), MkDate(2025, 12, 31)}
ActActLengths == {0, 1, 2, 30, 184, 200, 366, 400}

InitActAct ==
    /\ zs = ZsIdle /\ memo = NoObject
    /\ last = [op |-> "import", arg |-> <<>>, err |-> "", ret |-> <<>>,
               pre |-> NoObject, n |-> 0,
               prev |-> [op |-> "", arg |-> <<>>, err |-> "", pre |-> NoObject]]
    /\ curve = NoObject /\ calendar = NoObject /\ rate = NoObject /\ bond = NoObject

\* t = start_date; t_year_end = date(t.year, 12, 31); time_factor = 0
ActActStart ==
    /\ zs.pc = "idle" /\ last.n = 0
    /\ \E start_date \in ActActStarts, days \in ActActLengths :
          SolverGoesOn([pc |-> "ActualActualISDA", entry |-> <<>>, iter |-> 0,
                        arg |-> [start_date |-> start_date, end_date |-> start_date + days],
                        t |-> start_date,
                        t_year_end |-> MkDate(YearOf(start_date), 12, 31),
                        time_factor |-> RZero])

\* the body of the loop for next_t = min(t_year_end, end_date)
ActActBody(f, next_t) ==
    [f EXCEPT !.time_factor = RAdd(@, RNorm(next_t - f.t,
                                            IF IsLeap(YearOf(f.t)) THEN 366 ELSE 365)),
              !.t = next_t]

\* one test of the loop: a pass of the body, or the return of time_factor
ActActStep ==
    /\ zs.pc = "ActualActualISDA"
    /\ IF zs.t < zs.arg.end_date
       THEN SolverGoesOn(ActActBody(zs, Min(zs.t_year_end, zs.arg.end_date)))
       ELSE SolverEnds("get_day_count_factor", zs, "", <<zs.time_factor>>)

NextActAct == ActActStart \/ ActActStep

SpecActAct == InitActAct /\ [][NextActAct]_vars

\* the loop is run as long as it can take a step
SpecActActFair == SpecActAct /\ WF_vars(NextActAct)

\* C25: TF_ActualActualISDA.get_day_count_factor terminates for every
\* start_date <= end_date, periods from a 31 December and periods past the
\* end of the year of the start date included.
C25_ActActTerminates ==
    (zs.pc = "ActualActualISDA") ~> (last.op = "get_day_count_factor")

(***************************************************************************)
(* Tenor and ScheduleGenerator (dates/schedules.py)                        *)
(***************************************************************************)
\* Calendar.add_business_days: for _ in range(business_days), which runs no
\* pass when business_days is not positive
RECURSIVE add_business_days(_, _, _)
add_business_days(cal, t, business_days) ==
    IF business_days <= 0 THEN t
    ELSE add_business_days(cal, add_business_day(cal, t), business_days - 1)

\* t + relativedelta(months=months): the day of the month is cut to the
\* length of the month arrived at
AddMonths(t, months) ==
    LET mi == YearOf(t) * 12 + MonthOf(t) - 1 + months
        y  == mi \div 12
        m  == (mi % 12) + 1
    IN MkDate(y, m, Min(DayOf(t), DaysInMonth(y, m)))

\* a tenor string as its number and its lower-cased last letter
Tenor(tenor_value, tenor_unit) == [tenor_value |-> tenor_value, tenor_unit |-> tenor_unit]

\* Tenor.get_unadjusted_maturity
get_unadjusted_maturity(tenor, cal, t, forward) ==
    LET n == tenor.tenor_value * (IF forward THEN 1 ELSE -1)
    IN CASE tenor.tenor_unit = "d" -> add_business_days(cal, t, n)
         [] tenor.tenor_unit = "m" -> AddMonths(t, n)
         [] tenor.tenor_unit = "y" -> AddMonths(t, 12 * n)
         [] tenor.tenor_unit = "w" -> t + 7 * n

accepted_frequency_tenors ==
    {Tenor(0, "m"), Tenor(0, "y"), Tenor(1, "m"), Tenor(3, "m"), Tenor(6, "m"), Tenor(1, "y")}

\* the while loop of generate_schedule
RECURSIVE ScheduleLoop(_, _, _, _, _, _, _, _)
ScheduleLoop(freq_tenor, cal, starting_date, stop_date, sign, u_schedule, counter, max_iterations) ==
    IF (starting_date > stop_date) = (sign = -1)
    THEN LET next_date == get_unadjusted_maturity(freq_tenor, cal, starting_date, sign = 1)
         IN IF counter + 1 > max_iterations
            THEN [err |-> "Exception", starting_date |-> next_date,
                  u_schedule |-> Append(u_schedule, next_date)]
            ELSE ScheduleLoop(freq_tenor, cal, next_date, stop_date, sign,
                              Append(u_schedule, next_date), counter + 1, max_iterations)
    ELSE [err |-> "", starting_date |-> starting_date, u_schedule |-> u_schedule]

\* list.sort() of a list of dates
RECURSIVE SortDates(_)
SortDates(sq) ==
    IF sq = <<>> THEN <<>>
    ELSE LET i == CHOOSE i \in DOMAIN sq : \A j \in DOMAIN sq : sq[i] <= sq[j]
         IN <<sq[i]>> \o SortDates(SubSeq(sq, 1, i - 1) \o SubSeq(sq, i + 1, Len(sq)))

\* list.pop(i) for the 1-based position i
PopAt(sq, i) == SubSeq(sq, 1, i - 1) \o SubSeq(sq, i + 1, Len(sq))

\* the stub adjustment of the sorted list
StubAdjusted(u_schedule, start_date, starting_date, stop_date, stub_first, long_stub) ==
    IF stop_date = starting_date THEN u_schedule
    ELSE IF stub_first
         THEN LET u == <<start_date>> \o Tail(u_schedule)
              IN IF Len(u) > 2 /\ long_stub THEN PopAt(u, 2) ELSE u
         ELSE LET u == SubSeq(u_schedule, 1, Len(u_schedule) - 1)
              IN IF Len(u) > 2 /\ long_stub THEN PopAt(u, Len(u) - 1) ELSE u

\* adj_schedule: every date but the last, then the adjusted maturity
AdjSchedule(u_schedule, adj_mat) ==
    SubSeq(u_schedule, 1, Len(u_schedule) - 1) \o <<adj_mat>>

\* ScheduleGenerator.generate_schedule, maturity_adj_conv left as None
generate_schedule(start_date, maturity_tenor, frequency_tenor, conv, cal, stub_first, long_stub) ==
    IF frequency_tenor \notin accepted_frequency_tenors
    THEN [err |-> "ValueError", ret |-> <<>>]
    ELSE LET umat    == get_unadjusted_maturity(maturity_tenor, cal, start_date, TRUE)
             adj_mat == adjust(conv, cal, umat)
             loop    == ScheduleLoop(frequency_tenor, cal,
                                     IF stub_first THEN umat ELSE start_date,
                                     IF stub_first THEN start_date ELSE umat,
                                     IF stub_first THEN -1 ELSE 1,
                                     <<IF stub_first THEN umat ELSE start_date>>,
                                     0, 10 + ((umat - start_date) \div 30))
         IN IF loop.err # "" THEN [err |-> loop.err, ret |-> <<>>]
            ELSE [err |-> "",
                  ret |-> AdjSchedule(
                              StubAdjusted(SortDates(loop.u_schedule), start_date,
                                           loop.starting_date,
                                           IF stub_first THEN start_date ELSE umat,
                                           stub_first, long_stub),
                              adj_mat)]

\* inputs: the start date of tests/run_tests.py and two more, maturities that
\* the frequencies divide and maturities that leave a stub
ScheduleStarts     == {MkDate(2024, 3, 31), MkDate(2024, 1, 15), MkDate(2024, 8, 30)}
MaturityTenors     == {Tenor(3, "m"), Tenor(6, "m"), Tenor(9, "m"), Tenor(1, "y"), Tenor(2, "w")}
FrequencyTenors    == {Tenor(1, "m"), Tenor(3, "m"), Tenor(6, "m"), Tenor(0, "m"), Tenor(2, "m")}
ScheduleCalendars  ==
    {Calendar(<<>>, <<>>),
     Calendar(<<MonthDayRule(12, 31, FALSE), MonthDayRule(9, 30, FALSE)>>,
              <<MkDate(2024, 6, 28), MkDate(2024, 6, 30)>>)}
ScheduleConventions == {"ModifiedFollowing", "Following"}

InitSchedule ==
    /\ calendar \in ScheduleCalendars
    /\ last = [op |-> "__post_init__", arg |-> <<>>, err |-> "", ret |-> <<>>,
               pre |-> calendar, n |-> 0,
               prev |-> [op |-> "", arg |-> <<>>, err |-> "", pre |-> calendar]]
    /\ zs = ZsIdle
    /\ curve = NoObject /\ rate = NoObject /\ bond = NoObject /\ memo = NoObject

ScheduleReturns(arg, r) ==
    /\ last' = Call("generate_schedule", arg, r.err, r.ret, calendar)
    /\ UNCHANGED <<calendar, curve, rate, bond, zs, memo>>

GenerateSchedule ==
    /\ last.n = 0
    /\ \E start_date \in ScheduleStarts, maturity_tenor \in MaturityTenors,
          frequency_tenor \in FrequencyTenors, conv \in ScheduleConventions,
          stub_first \in BOOLEAN, long_stub \in BOOLEAN :
          ScheduleReturns([start_date |-> start_date, maturity_tenor |-> maturity_tenor,
                           frequency_tenor |-> frequency_tenor, conv |-> conv,
                           stub_first |-> stub_first, long_stub |-> long_stub],
                          generate_schedule(start_date, maturity_tenor, frequency_tenor,
                                            conv, calendar, stub_first, long_stub))

NextSchedule == GenerateSchedule

SpecSchedule == InitSchedule /\ [][NextSchedule]_vars

\* the months of the frequency tenor
TenorMonths(tenor) == IF tenor.tenor_unit = "y" THEN 12 * tenor.tenor_value ELSE tenor.tenor_value

\* calendar months from a to b
MonthsApart(a, b) == (YearOf(b) * 12 + MonthOf(b)) - (YearOf(a) * 12 + MonthOf(a))

\* no two consecutive dates are more calendar months apart than the frequency
\* tenor has; the last date is taken before its adjustment
NoLongPeriod(sch, umat, months) ==
    \A i \in 1..(Len(sch) - 1) :
        MonthsApart(sch[i], IF i + 1 = Len(sch) THEN umat ELSE sch[i + 1]) <= months

StrictlyIncreasing(sch) == \A i \in 1..(Len(sch) - 1) : sch[i] < sch[i + 1]

\* C26: generate_schedule returns strictly increasing dates, the first the
\* start date and the last the adjusted maturity; with long_stub=False no two
\* consecutive dates are further apart than one frequency tenor, whether the
\* stub is first or last.
C26_ScheduleShape ==
    (last.op = "generate_schedule" /\ last.err = "") =>
        LET umat == get_unadjusted_maturity(last.arg.maturity_tenor, calendar,
                                            last.arg.start_date, TRUE)
        IN /\ StrictlyIncreasing(last.ret)
           /\ last.ret[1] = last.arg.start_date
           /\ last.ret[Len(last.ret)] = adjust(last.arg.conv, calendar, umat)
           /\ ~last.arg.long_stub =>
                 NoLongPeriod(last.ret, umat, TenorMonths(last.arg.frequency_tenor))

(***************************************************************************)
(* ZeroCouponCurve.forward_curve (rates/ZeroCouponCurve.py)                *)
(***************************************************************************)
\* end_df / start_df of two discount factors
DfQuotient(end_df, start_df) ==
    IF end_df.k = "pos" /\ start_df.k = "pos"
    THEN [k |-> "pos", l |-> LVSub(end_df.l, start_df.l)]
    ELSE DfNan

\* the list comprehension of forward_curve: get_df_fwd(forward_date, date) for
\* every point after forward_date, each get_df leaving its entry in the cache
RECURSIVE ForwardDateDfs(_, _, _)
ForwardDateDfs(c, forward_date, points) ==
    IF points = <<>> THEN [curve |-> c, date_dfs |-> <<>>]
    ELSE IF points[1].date > forward_date
    THEN LET end_df   == get_dfs(c, <<points[1].date>>)
             start_df == get_dfs(end_df.curve, <<forward_date>>)
             rest     == ForwardDateDfs(start_df.curve, forward_date, Tail(points))
         IN  [curve |-> rest.curve,
              date_dfs |-> <<[date |-> points[1].date,
                              df |-> DfQuotient(end_df.ret[1], start_df.ret[1])]>>
                           \o rest.date_dfs]
    ELSE ForwardDateDfs(c, forward_date, Tail(points))

\* a discount factor of the curve as the numpy float get_rate_from_df is given
DfAsFloat(df) == IF df.k = "pos" THEN WfPos(df.l, TRUE) ELSE WfOther("nan", TRUE)

\* ZeroCouponCurve.__post_init__ with date_dfs given: the points
PointsFromDfs(curve_date, date_dfs, conv) ==
    [i \in DOMAIN date_dfs |->
        [date |-> date_dfs[i].date,
         rate |-> get_rate_from_df(DfAsFloat(date_dfs[i].df), curve_date,
                                   date_dfs[i].date, conv).rate]]

\* the return of forward_curve, or the assignment of the points of zcc to self
ForwardResult(c, zcc, inplace) ==
    IF inplace THEN _complete_curve([c EXCEPT !.curve_points = zcc.curve_points])
    ELSE [err |-> "", curve |-> c, ret |-> <<zcc>>]

ForwardFromDfs(c, forward_date, date_dfs, inplace) ==
    IF date_dfs = <<>> THEN [err |-> "IndexError", curve |-> c, ret |-> <<>>]
    ELSE ForwardResult(c,
                       NewCurve(forward_date,
                                PointsFromDfs(forward_date, date_dfs,
                                              c.curve_points[1].rate.rate_convention)),
                       inplace)

ForwardFold(fold, forward_date, inplace) ==
    ForwardFromDfs(fold.curve, forward_date, fold.date_dfs, inplace)

\* ZeroCouponCurve.forward_curve
forward_curve(c, forward_date, inplace) ==
    IF forward_date <= c.curve_date THEN [err |-> "ValueError", curve |-> c, ret |-> <<>>]
    ELSE ForwardFold(ForwardDateDfs(c, forward_date, c.curve_points), forward_date, inplace)

ForwardDates == {CurveDate, CurveDate + 1, CurveDate + 2, CurveDate + 4}

ForwardCurve ==
    /\ CanCall
    /\ \E forward_date \in ForwardDates, inplace \in BOOLEAN :
          Returns("forward_curve", [forward_date |-> forward_date, inplace |-> inplace],
                  forward_curve(curve, forward_date, inplace))

NextForward == ForwardCurve \/ GetDfs

SpecForward == InitCurve /\ [][NextForward]_vars

\* ZeroCouponCurve.get_df as a value
DfAt(c, d) == get_dfs(c, <<d>>).ret[1]

\* == on two floats that are discount factors
DfEqual(a, b) == a.k = "pos" /\ b.k = "pos" /\ a.l = b.l

\* the curve c is what forward_curve(forward_date) of the curve pre returns
SameAsReturned(c, zcc, pre, forward_date) ==
    /\ c.curve_date = forward_date
    /\ c.dates = zcc.dates
    /\ \A i \in DOMAIN c.dates :
          /\ c.dates[i] > forward_date
          /\ DfEqual(DfAt(c, c.dates[i]),
                     DfQuotient(DfAt(pre, c.dates[i]), DfAt(pre, forward_date)))

\* C27: forward_curve(d, inplace=True) leaves the curve observationally equal
\* to the curve forward_curve(d, inplace=False) returns: its curve date is d,
\* its points are the anchors after d, and get_df(x) is the get_df_fwd(d, x)
\* of the original curve at every anchor x after d.
C27_InplaceEqualsReturned ==
    (last.op = "forward_curve" /\ last.err = "" /\ last.arg.inplace) =>
        SameAsReturned(curve, forward_curve(last.pre, last.arg.forward_date, FALSE).ret[1],
                       last.pre, last.arg.forward_date)

(***************************************************************************)
(* Business-day tenors: Calendar.add_business_days and a 'nD' Tenor        *)
(***************************************************************************)
BusinessDayCounts == -2..2
BusinessDayTenors == {Tenor(1, "d"), Tenor(2, "d")}

AddBusinessDays ==
    /\ CanCallCalendar
    /\ \E t \in CalendarDates, business_days \in BusinessDayCounts :
          Answers("add_business_days", [t |-> t, business_days |-> business_days],
                  add_business_days(calendar, t, business_days))

GetUnadjustedMaturity ==
    /\ CanCallCalendar
    /\ \E tenor \in BusinessDayTenors, t \in CalendarDates, forward \in BOOLEAN :
          Answers("get_unadjusted_maturity", [tenor |-> tenor, t |-> t, forward |-> forward],
                  get_unadjusted_maturity(tenor, calendar, t, forward))

NextTenor == AddBusinessDays \/ GetUnadjustedMaturity

SpecTenor == InitCalendar /\ [][NextTenor]_vars

\* the date n business days before t
RECURSIVE BusinessDaysBefore(_, _, _)
BusinessDaysBefore(cal, t, n) ==
    IF n = 0 THEN t ELSE BusinessDaysBefore(cal, subtract_business_day(cal, t), n - 1)

\* C28: a business-day Tenor applied backwards returns the date n business
\* days before t, and add_business_days(t, -n) for n > 0 never returns t.
C28_BackwardBusinessDays ==
    /\ (last.op = "get_unadjusted_maturity" /\ ~last.arg.forward) =>
          last.ret = BusinessDaysBefore(last.pre, last.arg.t, last.arg.tenor.tenor_value)
    /\ (last.op = "add_business_days" /\ last.arg.business_days < 0) =>
          last.ret # last.arg.t

(***************************************************************************)
(* get_ny_calendar and get_cl_calendar (dates/calendars.py).  The          *)
(* custom_holidays of these calendars is <<l>> for the list l and <<>> for *)
(* None, the default of the parameter, which is handed to Calendar as is.  *)
(***************************************************************************)
get_ny_calendar(custom_holidays) ==
    Calendar(<<MonthDayRule(1, 1, FALSE), OrdinalWeekWeekdayRule(3, 0, 1),
               OrdinalWeekWeekdayRule(3, 0, 2), FridayEasterRule,
               LastWeekWeekdayRule(0, 5), MonthDayRule(6, 19, FALSE),
               MonthDayRule(7, 4, FALSE), OrdinalWeekWeekdayRule(1, 0, 9),
               OrdinalWeekWeekdayRule(2, 0, 10), MonthDayRule(11, 11, FALSE),
               OrdinalWeekWeekdayRule(4, 3, 11), MonthDayRule(12, 25, FALSE)>>,
             custom_holidays)

get_cl_calendar(custom_holidays, add_banking_holiday) ==
    Calendar(<<MonthDayRule(1, 1, FALSE), FridayEasterRule, MonthDayRule(5, 1, FALSE),
               MonthDayRule(5, 21, FALSE), MonthDayRule(6, 20, FALSE),
               MonthDayRule(6, 29, TRUE), MonthDayRule(7, 16, FALSE),
               MonthDayRule(8, 15, FALSE), MonthDayRule(9, 18, FALSE),
               MonthDayRule(9, 19, FALSE),
               ConsecutiveHolidaySandwichRule(MonthDayRule(9, 18, FALSE),
                                              MonthDayRule(9, 19, FALSE)),
               MonthDayRule(10, 12, TRUE), MonthDayRule(10, 31, FALSE),
               MonthDayRule(11, 1, FALSE), MonthDayRule(12, 8, FALSE),
               MonthDayRule(12, 25, FALSE)>>
             \o (IF add_banking_holiday THEN <<MonthDayRule(12, 31, FALSE)>> ELSE <<>>),
             custom_holidays)

\* the calendar with its list, and the calendar holding a list again
WithList(cal) == [cal EXCEPT !.custom_holidays = @[1]]
HoldingList(cal) == [cal EXCEPT !.custom_holidays = <<@>>]

\* a method that reads self.custom_holidays first: "date in None" and
\* "for ch in None" raise TypeError, None.append raises AttributeError
OnCustomHolidays(cal, err, outcome) ==
    IF cal.custom_holidays = <<>> THEN [err |-> err, ret |-> <<>>, cal |-> cal]
    ELSE outcome

Value(cal, v) == [err |-> "", ret |-> <<v>>, cal |-> cal]

DefaultIsHoliday(cal, d) ==
    OnCustomHolidays(cal, "TypeError", Value(cal, is_holiday(WithList(cal), d)))

DefaultAddBusinessDay(cal, t) ==
    OnCustomHolidays(cal, "TypeError", Value(cal, add_business_day(WithList(cal), t)))

DefaultSubtractBusinessDay(cal, t) ==
    OnCustomHolidays(cal, "TypeError", Value(cal, subtract_business_day(WithList(cal), t)))

HolidaysOutcome(cal, r) == [err |-> r.err, ret |-> r.ret, cal |-> cal]

DefaultGetHolidays(cal, year) ==
    OnCustomHolidays(cal, "TypeError", HolidaysOutcome(cal, get_holidays(WithList(cal), year)))

DefaultAddCustomHoliday(cal, d) ==
    OnCustomHolidays(cal, "AttributeError",
                     [err |-> "", ret |-> <<>>,
                      cal |-> HoldingList(add_custom_holiday(WithList(cal), d))])

\* inputs: the parameter left out, an empty list, a list of one date
CustomHolidayArgs == {<<>>, <<<<>>>>, <<<<MkDate(2024, 3, 28)>>>>}
DefaultCalendars ==
    {get_ny_calendar(c) : c \in CustomHolidayArgs}
        \cup {get_cl_calendar(c, b) : c \in CustomHolidayArgs, b \in BOOLEAN}
DefaultDates ==
    {MkDate(2024, 1, 1), MkDate(2024, 3, 28), MkDate(2024, 3, 29), MkDate(2024, 7, 4),
     MkDate(2024, 12, 24), MkDate(2025, 9, 17)}

InitDefault ==
    /\ calendar \in DefaultCalendars
    /\ last = [op |-> "__post_init__", arg |-> <<>>, err |-> "", ret |-> <<>>,
               pre |-> calendar, n |-> 0,
               prev |-> [op |-> "", arg |-> <<>>, err |-> "", pre |-> calendar]]
    /\ zs = ZsIdle /\ memo = NoObject
    /\ curve = NoObject /\ rate = NoObject /\ bond = NoObject

\* the call op(arg) on the calendar ends with the outcome r
DefaultReturns(op, arg, r) ==
    /\ calendar' = r.cal
    /\ last' = Call(op, arg, r.err, r.ret, calendar)
    /\ UNCHANGED <<curve, rate, bond, zs, memo>>

DefaultCallIsHoliday ==
    /\ CanCallCalendar
    /\ \E d \in DefaultDates : DefaultReturns("is_holiday", d, DefaultIsHoliday(calendar, d))

DefaultCallAddBusinessDay ==
    /\ CanCallCalendar
    /\ \E t \in DefaultDates :
          DefaultReturns("add_business_day", t, DefaultAddBusinessDay(calendar, t))

DefaultCallSubtractBusinessDay ==
    /\ CanCallCalendar
    /\ \E t \in DefaultDates :
          DefaultReturns("subtract_business_day", t, DefaultSubtractBusinessDay(calendar, t))

DefaultCallGetHolidays ==
    /\ CanCallCalendar
    /\ \E year \in HolidayYears :
          DefaultReturns("get_holidays", year, DefaultGetHolidays(calendar, year))

DefaultCallAddCustomHoliday ==
    /\ CanCallCalendar
    /\ \E d \in DefaultDates :
          DefaultReturns("add_custom_holiday", d, DefaultAddCustomHoliday(calendar, d))

NextDefault ==
    \/ DefaultCallIsHoliday
    \/ DefaultCallAddBusinessDay
    \/ DefaultCallSubtractBusinessDay
    \/ DefaultCallGetHolidays
    \/ DefaultCallAddCustomHoliday

SpecDefault == InitDefault /\ [][NextDefault]_vars

\* C29: a calendar from get_cl_calendar() or get_ny_calendar() called without
\* custom holidays answers is_holiday, add_business_day,
\* subtract_business_day and get_holidays without raising, and
\* add_custom_holiday on it succeeds.
C29_DefaultCalendarAnswers ==
    (last.n > 0 /\ last.pre.custom_holidays = <<>>) => last.err = ""

====
